---- MODULE Spec2Model ----
(***************************************************************************)
(* Paradone mesh node: Peer (send / broadcast / forward / retry queue),    *)
(* the request-peer / offer / answer handshake, the data channel handlers  *)
(* and the signalling link, as a state machine over three peers; the       *)
(* gossip extension (GossipRPS and its worker) and the media extension     *)
(* (Media and MediaPeer) of peer A.                                        *)
(***************************************************************************)
EXTENDS Integers, Sequences, FiniteSets, TLC

\* ------------------------------------------------------------------ bounds
MaxCalls == 2        \* calls of Peer#send made by the application
MaxPC == 3           \* PeerConnection objects a peer holds
MaxCandidates == 1   \* ICE candidates a PeerConnection gathers
MaxCloses == 1       \* data channels torn down by the environment
MaxTime == 2000      \* the clock stops here (ms)

\* --------------------------------------------------------------- constants
Peers == {"A", "B", "C", "D"}
PeerTtl == 3
PeerQueueTimeout == 1000
TimeStep == PeerQueueTimeout \div 2
EntryTimeout == (PeerQueueTimeout * 3) \div 2
BroadcastString == "-1"
BroadcastNumber == "number:-1"
forwardableTypes == {"icecandidate", "request-peer", "offer", "answer"}
QueueableType == "queuetest"
AllFields == {"type", "from", "to", "ttl", "forwardBy"}
NoData == [obj |-> 0, re |-> 0]

Range(s) == {s[i] : i \in 1..Len(s)}

Min(a, b) == IF a < b THEN a ELSE b
Max(a, b) == IF a > b THEN a ELSE b

\* The elements of an array whose order no reader depends on, as an array.
RECURSIVE SetToSeq(_)
SetToSeq(S) ==
  IF S = {} THEN <<>>
  ELSE LET x == CHOOSE x \in S : TRUE IN <<x>> \o SetToSeq(S \ {x})

\* The orders shuffleArray can put the elements of an array in.
Orders(ids) ==
  {o \in [1..Cardinality(ids) -> ids] : \A i \in DOMAIN o : \A j \in DOMAIN o : o[i] = o[j] => i = j}

\* array.slice(0, end); a negative end counts from the end of the array.
slice(array, end) ==
  SubSeq(array, 1, IF end >= 0 THEN Min(end, Len(array)) ELSE Max(Len(array) + end, 0))

\* A Message; `has` is the set of properties the object owns.
Message(type, from, to, ttl, data) ==
  [type |-> type, from |-> from, to |-> to, ttl |-> ttl, forwardBy |-> <<>>,
   route |-> <<>>, data |-> data, has |-> AllFields]

\* The internal event built by the data channel handlers: it has no `to`.
ChannelEvent(type, remotePeer) ==
  [type |-> type, from |-> remotePeer, to |-> "undefined", ttl |-> 0,
   forwardBy |-> <<>>, route |-> <<>>, data |-> NoData, has |-> {"type", "from"}]

\* ---------------------------------------------------------------- media.js
MaxParts == 3        \* clusters of the metadata

MediaPeerId == "A"
Source == "source"
PartNumbers == 0..(MaxParts - 1)
Statuses == {"needed", "pending", "available", "added"}

\* A Part: chunks holds the indexes filled in partObject.chunks, part tells
\* where the data came from.
Part(status) == [status |-> status, chunks |-> {}, part |-> "none"]

\* What the last call of the media code was given and what it did.
NoCall ==
  [op |-> "none", howMany |-> 0, choices |-> <<>>, number |-> 0, chunk |-> 0, error |-> FALSE,
   bytes |-> <<>>, chunkSize |-> 0, chunked |-> <<>>, result |-> FALSE, range |-> <<>>,
   view |-> {}]

\* new Media(sourceURL, sourceTag): no parts, no remotes; remoteIds are the
\* keys of remotes. head: initSource has run; sourceBuffer: "none" until
\* sourceopen, then "updating" or "idle"; appended: the parts given to the
\* source buffer; fetching: the parts with a request to the origin in flight;
\* failed: the parts whose request to the origin was rejected.
NoMedia ==
  [parts |-> <<>>, remoteIds |-> {}, remotes |-> [r \in Peers |-> {}], fetching |-> {},
   failed |-> {}, head |-> FALSE, sourceBuffer |-> "none", appended |-> <<>>,
   received |-> 0, metadata |-> [clusters |-> <<>>, size |-> 0], last |-> NoCall]

\* message.number of the media messages travels in data.obj, past the ids of
\* the application's messages; data.re holds the ':chunk:numberOfChunks'
\* suffix of a chunked part, 0 when the number has no suffix.
MaxChunks == 2       \* chunks a remote peer cuts a part into

PartObj(partNumber) == MaxCalls + 1 + partNumber
numberOf(obj) == obj - MaxCalls - 1
ChunkCode(chunkNumber, numberOfChunks) == 1 + chunkNumber + numberOfChunks * MaxChunks
chunkNumberOf(code) == (code - 1) % MaxChunks
numberOfChunksOf(code) == (code - 1) \div MaxChunks
ChunkCodes ==
  {0} \cup {code \in {ChunkCode(i, n) : i \in 0..(MaxChunks - 1), n \in 1..MaxChunks} :
             chunkNumberOf(code) < numberOfChunksOf(code)}

\* The clusters in the metadata of the file the media peer downloads.
Clusters == MaxParts - 1

\* MediaPeer.concurrentParts and MediaPeer.downloadTimeout, as the options set them.
concurrentParts == Clusters - 1
downloadTimeout == TimeStep

\* -------------------------------------------------------- messageEmitter.js
\* The message types and the listener functions of the emitter on its own.
EmitterTypes == {"request-peer", "test"}
EmitterListeners == {"f", "g"}
Undefined == "undefined"

\* What the last call of the emitter was given and did: the listeners it
\* invoked and whether it threw.
NoEmit == [op |-> "none", type |-> "none", invoked |-> {}, error |-> FALSE]

\* new MessageEmitter(): listeners is an empty Map; has are its keys, of[type]
\* the Set stored under a key.
NoEmitter == [has |-> {}, of |-> [type \in EmitterTypes |-> {}], last |-> NoEmit]

\* MessageEmitter#on(messageType, listener)
on(E, messageType, listener) ==
  [E EXCEPT !.has = @ \cup {messageType}, !.of[messageType] = @ \cup {listener},
            !.last = [NoEmit EXCEPT !.op = "on", !.type = messageType]]

\* MessageEmitter#removeListener(messageType, listener)
removeListener(E, messageType, listener) ==
  [E EXCEPT !.of[messageType] = IF messageType \in E.has THEN @ \ {listener} ELSE @,
            !.last = [NoEmit EXCEPT !.op = "removeListener", !.type = messageType]]

\* MessageEmitter#removeAllListeners(messageType): without a type the Map is
\* cleared; with a type the Set is cleared if the Map has NOT the type, which
\* calls clear on undefined.
removeAllListeners(E, messageType) ==
  IF messageType = Undefined
  THEN [NoEmitter EXCEPT !.last = [NoEmit EXCEPT !.op = "removeAllListeners", !.type = messageType]]
  ELSE [E EXCEPT !.last = [NoEmit EXCEPT !.op = "removeAllListeners", !.type = messageType,
                                         !.error = messageType \notin E.has]]

\* MessageEmitter#dispatchMessage(message) of a valid message of that type
emitterDispatch(E, type) ==
  [E EXCEPT !.last = [NoEmit EXCEPT !.op = "dispatchMessage", !.type = type,
                                    !.invoked = IF type \in E.has THEN E.of[type] ELSE {}]]

\* ------------------------------------------------------------------- state
VARIABLES
  pcs,          \* pcs[p]: the PeerConnection objects peer p has created
  connections,  \* connections[p][r]: index in pcs[p] of the entry for r, 0 = none
  queue,        \* queue[p]: the retry queue
  chan,         \* chan[p][q]: messages in flight on data channels from p to q
  sig,          \* sig[p][q]: messages the signalling server relays from p to q
  fired,        \* fired[n]: how often the callback given with call n has run
  handed,       \* ids of queueable messages given to an open channel, with the remote
  out,          \* what the last handler did (dispatches, enqueues)
  now,          \* Date.now()
  ticked,       \* ticked[p]: p's processQueue has run at the current instant
  calls,        \* application calls of send so far
  issued,       \* issued[n]: the message the application gave to send in call n
  closes,       \* environment teardowns so far
  gossip,       \* the gossip worker: options, view, answer listeners, last exchange
  media,        \* the Media that peer A tracks: parts, remotes, origin fetches, sink
  emitter,      \* a MessageEmitter: its listeners map and what the last call did
  icecandidates \* icecandidates[p][r]: candidates from r that p stored for later

peerVars == <<pcs, connections, queue, chan, sig, fired, handed, out, now, ticked, calls, issued, closes,
              media, emitter, icecandidates>>

vars == <<pcs, connections, queue, chan, sig, fired, handed, out, now, ticked, calls, issued, closes,
          gossip, media, emitter, icecandidates>>

NoMessage == Message("none", "none", "none", 0, NoData)

Out(op, p, m) ==
  [op |-> op, peer |-> p, msg |-> m, dispatched |-> <<>>, enqueued |-> <<>>,
   requested |-> <<>>, sent |-> {}, signalled |-> <<>>, created |-> <<>>,
   broadcasts |-> <<>>, timedout |-> {}, added |-> <<>>, published |-> <<>>]

\* The mutable world a handler runs in; handlers are functions World -> World.
World(op, p, m) ==
  [pcs |-> pcs, connections |-> connections, queue |-> queue, chan |-> chan,
   sig |-> sig, fired |-> fired, handed |-> handed, now |-> now, out |-> Out(op, p, m),
   media |-> [media EXCEPT !.last = NoCall], icecandidates |-> icecandidates]

Commit(W) ==
  /\ \A p \in Peers : Len(W.pcs[p]) <= MaxPC
  /\ pcs' = W.pcs
  /\ connections' = W.connections
  /\ queue' = W.queue
  /\ chan' = W.chan
  /\ sig' = W.sig
  /\ fired' = W.fired
  /\ handed' = W.handed
  /\ out' = W.out
  /\ media' = W.media
  /\ icecandidates' = W.icecandidates
  /\ UNCHANGED <<gossip, emitter>>

\* ------------------------------------------------------------ util.js
contains(element, array) == element \in array

messageIsValid(msg) ==
  LET check(params) == \A param \in params : param \in msg.has
      originals == check({"type", "from", "to"})
      additionals == IF contains(msg.type, {"request-peer", "answer", "icecandidate", "offer"})
                     THEN check({"ttl", "forwardBy"})
                     ELSE TRUE
  IN originals /\ additionals

\* ---------------------------------------------------------------- media.js
\* selectPeer taking the first known peer, whether it has the part or not.
selectPeer_firstKnownPeer(remotes, partNumber, remoteIds) ==
  IF remoteIds = <<>> THEN Source ELSE Head(remoteIds)

\* selectPeer of nextPartsToDownload; remoteIds are the shuffled keys.
RECURSIVE selectPeer(_, _, _)
selectPeer(remotes, partNumber, remoteIds) ==
  IF remoteIds = <<>> THEN Source
  ELSE IF contains(partNumber, remotes[Head(remoteIds)]) THEN Head(remoteIds)
  ELSE selectPeer(remotes, partNumber, Tail(remoteIds))

\* shuffled[partNumber] is the order shuffleArray gives the keys for that part.
nextPartsToDownload(M, howMany, shuffled) ==
  LET partNumbers == [i \in 1..Len(M.parts) |-> i - 1]
      needed == SelectSeq(partNumbers, LAMBDA pNbr : M.parts[pNbr + 1].status = "needed")
      kept == slice(needed, howMany)
  IN [i \in 1..Len(kept) |->
        [id |-> selectPeer(M.remotes, kept[i], shuffled[kept[i]]), partNumber |-> kept[i]]]

\* ------------------------------------------------------ peerConnection.js
PeerConnection(remotePeer, role, forwardBy, partner) ==
  [remotePeer |-> remotePeer, status |-> "connecting", role |-> role,
   task |-> IF role = "offerer" THEN "offer" ELSE "answer",
   requestForwardBy |-> forwardBy, localDescription |-> "none", partner |-> partner,
   gathered |-> 0, candidates |-> {}]

has(W, p, r) == r \in Peers /\ W.connections[p][r] # 0

get(W, p, r) == W.pcs[p][W.connections[p][r]]

\* connections.set(remote, new PeerConnection(...))
setConnection(W, p, pc) ==
  LET i == Len(W.pcs[p]) + 1
  IN [W EXCEPT !.pcs[p] = Append(@, pc),
               !.connections[p][pc.remotePeer] = i,
               !.out.created = Append(@, pc.remotePeer)]

\* pc.send: JSON over the channel, only when the connection is open
pcSend(W, p, r, message) ==
  LET pc == get(W, p, r)
  IN IF pc.status = "open"
     THEN [W EXCEPT !.chan[p][r] = Append(@, [msg |-> message, dst |-> pc.partner]),
                    !.out.sent = @ \cup {r},
                    !.handed = IF message.type = QueueableType
                               THEN @ \cup {<<message.data.obj, r>>}
                               ELSE @]
     ELSE W

\* ---------------------------------------------------------------- signal.js
\* Whom the rendezvous server relays a message to.
signalRecipients(message, p) ==
  IF message.to \in Peers THEN {message.to}
  ELSE IF message.to \in {BroadcastString, BroadcastNumber} THEN Peers \ {p}
  ELSE {}

\* Signal.send that leaves the ttl of the message as it is.
signalSend_keepingTtl(W, p, message) ==
  LET m == message
  IN [W EXCEPT !.sig[p] = [q \in Peers |-> IF q \in signalRecipients(m, p)
                                            THEN Append(W.sig[p][q], m)
                                            ELSE W.sig[p][q]],
               !.out.signalled = Append(@, m)]

signalSend(W, p, message) ==
  LET m == [message EXCEPT !.ttl = 0, !.has = @ \cup {"ttl"}]
  IN [W EXCEPT !.sig[p] = [q \in Peers |-> IF q \in signalRecipients(m, p)
                                            THEN Append(W.sig[p][q], m)
                                            ELSE W.sig[p][q]],
               !.out.signalled = Append(@, m)]

\* ------------------------------------------------------------------ peer.js
\* broadcast that also sends to the peers the message came through.
broadcast_toForwardersToo(W, p, message) ==
  LET targets == {r \in Peers : has(W, p, r) /\ get(W, p, r).status = "open"}
      W1 == [W EXCEPT !.chan[p] = [r \in Peers |->
                         IF r \in targets
                         THEN Append(W.chan[p][r], [msg |-> message, dst |-> get(W, p, r).partner])
                         ELSE W.chan[p][r]],
                      !.out.sent = @ \cup targets,
                      !.out.broadcasts = Append(@, [msg |-> message, targets |-> targets])]
  IN IF targets = {} THEN signalSend(W1, p, message) ELSE W1

\* broadcast(connections, message); connections always has 'signal', which the
\* Peer constructor sets and nothing removes.
broadcast(W, p, message) ==
  LET from == {message.from} \cup Range(message.forwardBy)
      targets == {r \in Peers : /\ has(W, p, r)
                                /\ ~contains(r, from)
                                /\ get(W, p, r).status = "open"}
      W1 == [W EXCEPT !.chan[p] = [r \in Peers |->
                         IF r \in targets
                         THEN Append(W.chan[p][r], [msg |-> message, dst |-> get(W, p, r).partner])
                         ELSE W.chan[p][r]],
                      !.out.sent = @ \cup targets,
                      !.out.broadcasts = Append(@, [msg |-> message, targets |-> targets])]
  IN IF targets = {} THEN signalSend(W1, p, message) ELSE W1

RECURSIVE send(_, _, _, _, _, _)

requestPeer(W, p, to) ==
  send([W EXCEPT !.out.requested = Append(@, to)], p,
       Message("request-peer", p, to, PeerTtl, NoData), FALSE, 0, FALSE)

respondTo(W, p, message, type, data) ==
  send(W, p, [Message(type, p, message.from, PeerTtl, data)
                 EXCEPT !.route = message.forwardBy], FALSE, 0, FALSE)

\* forward that appends the forwarder but leaves ttl as received.
forward_keepingTtl(W, p, message) ==
  send(W, p, [message EXCEPT !.forwardBy = Append(@, p)], FALSE, 0, FALSE)

forward(W, p, message) ==
  send(W, p, [message EXCEPT !.ttl = @ - 1, !.forwardBy = Append(@, p)], FALSE, 0, FALSE)

onanswer(W, p, message) ==
  LET from == message.from
  IN IF ~has(W, p, from) THEN W          \* connections.get(from) is undefined: TypeError
     ELSE LET pc == get(W, p, from)
          IN \* setRemoteDescription(answer) succeeds only in have-local-offer
             IF pc.role = "offerer" /\ pc.localDescription = "offer" /\ pc.partner = 0
             THEN [W EXCEPT !.pcs[p][W.connections[p][from]].partner = message.data.obj]
             ELSE W

\* RTCPeerConnection.addIceCandidate on p's i-th PeerConnection: without a remote
\* description it fails with InvalidStateError and the candidate is not added.
addIceCandidate(W, p, i, candidate) ==
  LET described == W.pcs[p][i].partner # 0
  IN [W EXCEPT !.pcs[p][i].candidates = IF described THEN @ \cup {candidate} ELSE @,
               !.out.added = Append(@, [remote |-> W.pcs[p][i].remotePeer,
                                        candidate |-> candidate,
                                        described |-> described])]

RECURSIVE addEach(_, _, _, _)
addEach(W, p, i, candidates) ==
  IF candidates = <<>> THEN W
  ELSE addEach(addIceCandidate(W, p, i, Head(candidates)), p, i, Tail(candidates))

onicecandidate(W, p, message) ==
  LET candidate == message.data
      from == message.from
  IN IF ~has(W, p, from)
     THEN [W EXCEPT !.icecandidates[p][from] = @ \cup {candidate}]
     ELSE addIceCandidate(W, p, W.connections[p][from], candidate)

\* createSDPAnswer hands the offer to setRemoteDescription before the stored
\* candidates are given to addIceCandidate; the connection runs them in that order.
onoffer(W, p, message) ==
  LET remotePeer == message.from
      W1 == setConnection(W, p, PeerConnection(remotePeer, "answerer", message.forwardBy,
                                               message.data.obj))
      W2 == addEach(W1, p, Len(W1.pcs[p]), SetToSeq(W.icecandidates[p][remotePeer]))
  IN [W2 EXCEPT !.icecandidates[p][remotePeer] = {}]

\* onrequestpeer without the test for an existing connection.
onrequestpeer_alwaysCreating(W, p, message) ==
  setConnection(W, p, PeerConnection(message.from, "offerer", message.forwardBy, 0))

onrequestpeer(W, p, message) ==
  LET remote == message.from
  IN IF has(W, p, remote) /\ get(W, p, remote).status # "close"
     THEN W
     ELSE setConnection(W, p, PeerConnection(remote, "offerer", message.forwardBy, 0))

RECURSIVE sendEach(_, _, _)
sendEach(W, p, elts) ==
  IF elts = <<>> THEN W
  ELSE sendEach(send(W, p, Head(elts).message, FALSE, 0, FALSE), p, Tail(elts))

onconnected(W, p, message) ==
  LET remote == message.from
      messageToSend == SelectSeq(W.queue[p], LAMBDA elt : elt.message.to = remote)
      rest == SelectSeq(W.queue[p], LAMBDA elt : elt.message.to # remote)
      W1 == sendEach(W, p, messageToSend)
  IN [W1 EXCEPT !.queue[p] = rest]

\* processQueue without the test that the entry owns a numeric timeout.
processQueue_anyEntryExpires(W, p) ==
  LET sendable(elt) == /\ has(W, p, elt.message.to)
                       /\ get(W, p, elt.message.to).status = "open"
      messagesToSend == SelectSeq(W.queue[p], sendable)
      messagesToAge == SelectSeq(W.queue[p], LAMBDA elt : ~sendable(elt))
      W1 == sendEach(W, p, messagesToSend)
      expired(elt) == W.now - elt.timestamp > elt.timeout
      messagesToTimeout == SelectSeq(messagesToAge, expired)
      messagesToEnqueue == SelectSeq(messagesToAge, LAMBDA elt : ~expired(elt))
      ran == {elt.message.data.obj : elt \in {e \in Range(messagesToTimeout) : e.callback}}
  IN [W1 EXCEPT !.fired = [n \in DOMAIN @ |-> IF n \in ran THEN @[n] + 1 ELSE @[n]],
                !.out.timedout = {elt.message.data.obj : elt \in Range(messagesToTimeout)},
                !.queue[p] = messagesToEnqueue]

\* processQueue that expires an entry as soon as its age reaches the timeout.
processQueue_expiresAtTimeout(W, p) ==
  LET sendable(elt) == /\ has(W, p, elt.message.to)
                       /\ get(W, p, elt.message.to).status = "open"
      messagesToSend == SelectSeq(W.queue[p], sendable)
      messagesToAge == SelectSeq(W.queue[p], LAMBDA elt : ~sendable(elt))
      W1 == sendEach(W, p, messagesToSend)
      expired(elt) == elt.hasTimeout /\ W.now - elt.timestamp >= elt.timeout
      messagesToTimeout == SelectSeq(messagesToAge, expired)
      messagesToEnqueue == SelectSeq(messagesToAge, LAMBDA elt : ~expired(elt))
      ran == {elt.message.data.obj : elt \in {e \in Range(messagesToTimeout) : e.callback}}
  IN [W1 EXCEPT !.fired = [n \in DOMAIN @ |-> IF n \in ran THEN @[n] + 1 ELSE @[n]],
                !.out.timedout = {elt.message.data.obj : elt \in Range(messagesToTimeout)},
                !.queue[p] = messagesToEnqueue]

processQueue(W, p) ==
  LET sendable(elt) == /\ has(W, p, elt.message.to)
                       /\ get(W, p, elt.message.to).status = "open"
      messagesToSend == SelectSeq(W.queue[p], sendable)
      messagesToAge == SelectSeq(W.queue[p], LAMBDA elt : ~sendable(elt))
      W1 == sendEach(W, p, messagesToSend)
      expired(elt) == elt.hasTimeout /\ W.now - elt.timestamp > elt.timeout
      messagesToTimeout == SelectSeq(messagesToAge, expired)
      messagesToEnqueue == SelectSeq(messagesToAge, LAMBDA elt : ~expired(elt))
      ran == {elt.message.data.obj : elt \in {e \in Range(messagesToTimeout) : e.callback}}
  IN [W1 EXCEPT !.fired = [n \in DOMAIN @ |-> IF n \in ran THEN @[n] + 1 ELSE @[n]],
                !.out.timedout = {elt.message.data.obj : elt \in Range(messagesToTimeout)},
                !.queue[p] = messagesToEnqueue]

\* ---------------------------------------------------------------- media.js
\* A JavaScript value with its type, as === compares it.
JsNumber(n) == [type |-> "number", value |-> n]
JsString(n) == [type |-> "string", value |-> n]
strictEquals(a, b) == a.type = b.type /\ a.value = b.value

\* sourceBuffer.appendBuffer(part): the buffer is updating until 'updateend'.
appendBuffer(M, partNumber) ==
  [M EXCEPT !.sourceBuffer = "updating", !.appended = Append(@, partNumber),
            !.parts[partNumber + 1].status = "added"]

\* The sink takes a part: the source buffer exists, the media source is open
\* and no update is running.
sinkReady(M) == M.sourceBuffer = "idle"

\* append that takes a part whatever its status.
append_anyStatus(M, partNumber, chunk) ==
  IF partNumber + 1 \notin DOMAIN M.parts
  THEN [M EXCEPT !.last.error = TRUE]
  ELSE
    LET partObject == M.parts[partNumber + 1]
        chunks == partObject.chunks \cup {chunkNumberOf(chunk)}
        length == JsNumber(Max(0, 1 + CHOOSE i \in chunks : \A j \in chunks : j <= i))
        numberOfChunks == JsString(numberOfChunksOf(chunk))
        M1 == IF chunk # 0
              THEN IF strictEquals(length, numberOfChunks)
                   THEN [M EXCEPT !.parts[partNumber + 1] =
                           [status |-> "available", chunks |-> chunks, part |-> "chunks"]]
                   ELSE [M EXCEPT !.parts[partNumber + 1].chunks = chunks]
              ELSE [M EXCEPT !.parts[partNumber + 1].part = "buffer",
                             !.parts[partNumber + 1].status = "available"]
    IN IF M1.parts[partNumber + 1].status = "available" /\ sinkReady(M1)
       THEN appendBuffer(M1, partNumber)
       ELSE M1

\* Media#append(number, buffer); number is 'part' or 'part:chunk:numberOfChunks',
\* split into strings. last.error: append threw.
append(M, partNumber, chunk) ==
  IF partNumber + 1 \notin DOMAIN M.parts
  THEN [M EXCEPT !.last.error = TRUE]
  ELSE
    LET partObject == M.parts[partNumber + 1]
        chunks == partObject.chunks \cup {chunkNumberOf(chunk)}
        length == JsNumber(Max(0, 1 + CHOOSE i \in chunks : \A j \in chunks : j <= i))
        numberOfChunks == JsString(numberOfChunksOf(chunk))
        M1 == IF chunk # 0
              THEN IF strictEquals(length, numberOfChunks)
                   THEN [M EXCEPT !.parts[partNumber + 1] =
                           [status |-> "available", chunks |-> chunks, part |-> "chunks"]]
                   ELSE [M EXCEPT !.parts[partNumber + 1].chunks = chunks]
              ELSE [M EXCEPT !.parts[partNumber + 1].part = "buffer",
                             !.parts[partNumber + 1].status = "available"]
    IN IF partObject.status # "pending"
       THEN [M EXCEPT !.last.error = TRUE]
       ELSE IF M1.parts[partNumber + 1].status = "available" /\ sinkReady(M1)
       THEN appendBuffer(M1, partNumber)
       ELSE M1

\* appendQueuedParts, the 'updateend' listener of the source buffer.
appendQueuedParts(M) ==
  LET available == {i \in DOMAIN M.parts : M.parts[i].status = "available"}
      nextPart == CHOOSE i \in available : \A j \in available : i <= j
  IN IF available = {} THEN M
     ELSE IF M.sourceBuffer # "updating" THEN appendBuffer(M, nextPart - 1)
     ELSE M

\* Media#peerHasPart(partNumber): the value returned, or thrown when
\* this.parts[partNumber] is undefined and its status is read.
peerHasPart(M, partNumber) ==
  IF partNumber + 1 \notin DOMAIN M.parts
  THEN [value |-> FALSE, thrown |-> TRUE]
  ELSE LET part == M.parts[partNumber + 1]
       IN [value |-> part.status = "available" \/ part.status = "added", thrown |-> FALSE]

\* Math.ceil(a / b) for a >= 0 and b >= 1.
ceil(a, b) == IF a % b = 0 THEN a \div b ELSE (a \div b) + 1

\* getChunkedPart that counts the full chunks only.
getChunkedPart_fullChunksOnly(chunkSize, part) ==
  LET numberOfChunks == Len(part) \div chunkSize
  IN [i \in 1..numberOfChunks |->
        SubSeq(part, (i - 1) * chunkSize + 1, Min(i * chunkSize, Len(part)))]

\* Media#getChunkedPart(chunkSize, partNumber) for a part that is held: part is
\* this.parts[partNumber].part, chunk i is part.slice(i * chunkSize, (i + 1) * chunkSize).
getChunkedPart(chunkSize, part) ==
  LET numberOfChunks == ceil(Len(part), chunkSize)
  IN [i \in 1..numberOfChunks |->
        SubSeq(part, (i - 1) * chunkSize + 1, Min(i * chunkSize, Len(part)))]

\* Media#setMetadata(meta): one needed part for each cluster.
setMetadata(M, clusters) ==
  [M EXCEPT !.parts = [i \in 1..clusters |-> Part("needed")]]

\* Media#getRangeOfPart: the HTTP range 'first-last' as the pair of its numbers;
\* clusters holds the offset of each cluster.
getRangeOfPart(M, partNumber) ==
  LET meta == M.metadata
      lastPart == Len(meta.clusters) - 1
  IN <<meta.clusters[partNumber + 1],
       IF partNumber = lastPart THEN meta.size ELSE meta.clusters[partNumber + 2] - 1>>

getRangeOfHead(M) == <<0, M.metadata.clusters[1] - 1>>

\* Media#initSource(head): the media source is created, 'sourceopen' follows.
initSource(M) == [M EXCEPT !.head = TRUE]

\* ------------------------------------------------------------ mediaPeer.js
\* The media:request-part of askForNextParts; ttl is this.ttl, which no Peer has.
RequestPart(p, to, partNumber) ==
  [Message("media:request-part", p, to, 0, [obj |-> PartObj(partNumber), re |-> 0])
     EXCEPT !.has = AllFields \ {"ttl"}]

\* A media message the peer dispatches to itself.
LocalMessage(type, p, partNumber) ==
  [Message(type, p, p, 0, [obj |-> PartObj(partNumber), re |-> 0])
     EXCEPT !.has = {"type", "from", "to"}]

\* The keys of media.remotes in the order shuffleArray leaves them: a media
\* that knows at most one remote has one order.
shuffledKeys(M) == [pNbr \in PartNumbers |-> SetToSeq(M.remoteIds)]

RECURSIVE askEach(_, _, _)
askEach(W, p, choices) ==
  IF choices = <<>> THEN W
  ELSE LET choice == Head(choices)
           W1 == send(W, p, RequestPart(p, choice.id, choice.partNumber),
                      TRUE, downloadTimeout, TRUE)
       IN askEach([W1 EXCEPT !.media.parts[choice.partNumber + 1].status = "pending"],
                  p, Tail(choices))

askForNextParts(W, p, nbParts) ==
  LET choices == nextPartsToDownload(W.media, nbParts, shuffledKeys(W.media))
  IN askEach([W EXCEPT !.media.last.howMany = nbParts, !.media.last.choices = choices],
             p, choices)

\* downloadFromServer that hands the part back to the scheduler as well.
downloadFromServer_releasingPart(W, p) ==
  IF p # MediaPeerId THEN W
  ELSE LET timedout == {numberOf(obj) : obj \in {o \in W.out.timedout : o > MaxCalls}}
       IN [W EXCEPT !.media.fetching = @ \cup timedout,
                    !.media.parts = [i \in DOMAIN @ |->
                                       IF i - 1 \in timedout THEN Part("needed") ELSE @[i]]]

\* downloadFromServer, the callback of the requests that timed out: the range
\* of each part is asked from the origin.
downloadFromServer(W, p) ==
  IF p # MediaPeerId THEN W
  ELSE [W EXCEPT !.media.fetching =
          @ \cup {numberOf(obj) : obj \in {o \in W.out.timedout : o > MaxCalls}}]

onhead(W, p, message) ==
  askForNextParts([W EXCEPT !.media = initSource([@ EXCEPT !.last.op = "media:head"])],
                  p, concurrentParts)

\* onpart; an exception of append leaves the listener before askForNextParts.
onpart(W, p, message) ==
  LET partNumber == numberOf(message.data.obj)
      M == append([W.media EXCEPT !.last.op = "media:part", !.last.number = partNumber,
                                  !.last.chunk = message.data.re],
                  partNumber, message.data.re)
  IN IF M.last.error THEN [W EXCEPT !.media = M]
     ELSE askForNextParts([W EXCEPT !.media = M], p, 1)

\* The URL of the media the peer tracks, and another one remote peers may hold.
MediaUrl == "u"
Urls == {MediaUrl, "v"}

\* A node descriptor of a view: hasMedia says that it has the media property,
\* urls which URLs that lists, parts[url] the part numbers listed for a URL.
NodeDescriptor(id, hasMedia, urls, parts) ==
  [id |-> id, hasMedia |-> hasMedia, urls |-> urls, parts |-> parts]

\* updateRemoteInformation that adds what the view says to the remotes it has.
updateRemoteInformation_keepingOthers(M, view) ==
  LET listed == {nd \in view : nd.hasMedia /\ MediaUrl \in nd.urls}
  IN [M EXCEPT !.remoteIds = @ \cup {nd.id : nd \in listed},
               !.remotes = [r \in Peers |->
                              IF \E nd \in listed : nd.id = r
                              THEN (CHOOSE nd \in listed : nd.id = r).parts[MediaUrl]
                              ELSE M.remotes[r]]]

\* updateRemoteInformation for the tracked media: remotes is replaced by the
\* object built from the descriptors that list the URL.
updateRemoteInformation(M, view) ==
  LET listed == {nd \in view : nd.hasMedia /\ MediaUrl \in nd.urls}
  IN [M EXCEPT !.remoteIds = {nd.id : nd \in listed},
               !.remotes = [r \in Peers |->
                              IF \E nd \in listed : nd.id = r
                              THEN (CHOOSE nd \in listed : nd.id = r).parts[MediaUrl]
                              ELSE {}]]

\* ------------------------------------------------------------------ peer.js
RECURSIVE listeners(_, _, _)

\* The number of a media:part message: a part number (chunk 0), or the string
\* 'part:chunk:chunks' that onrequestpart builds (chunk is its code).
PartNumber(partNumber, chunk) == [number |-> partNumber, chunk |-> chunk]

\* updateGossipDescriptor: the descriptor update is a valid message, which
\* dispatchMessage hands to the listeners; its value is kept in out.published.
updateGossipDescriptor(W, p, message) ==
  LET held == {i \in DOMAIN W.media.parts : W.media.parts[i].status \in {"available", "added"}}
      parts == {PartNumber(i - 1, 0) : i \in held}
      number == PartNumber(numberOf(message.data.obj), message.data.re)
      value == IF contains(number, parts) THEN parts ELSE parts \cup {number}
  IN listeners([W EXCEPT !.out.published = Append(@, value)], p,
               LocalMessage("gossip:descriptor-update", p, numberOf(message.data.obj)))

\* The listeners the Peer and MediaPeer constructors register, by message type.
listeners(W, p, message) ==
  LET W1 == [W EXCEPT !.out.dispatched = Append(@, message)]
  IN CASE message.type = "offer" -> onoffer(W1, p, message)
       [] message.type = "answer" -> onanswer(W1, p, message)
       [] message.type = "request-peer" -> onrequestpeer(W1, p, message)
       [] message.type = "icecandidate" -> onicecandidate(W1, p, message)
       [] message.type = "connected" -> onconnected(W1, p, message)
       [] message.type = "media:head" /\ p = MediaPeerId -> onhead(W1, p, message)
       [] message.type = "media:part" /\ p = MediaPeerId ->
            \* forEach runs onpart, then updateGossipDescriptor unless onpart threw
            LET W2 == onpart(W1, p, message)
            IN IF W2.media.last.error THEN W2 ELSE updateGossipDescriptor(W2, p, message)
       [] OTHER -> W1

\* messageEmitter.js
dispatchMessage(W, p, message) ==
  IF messageIsValid(message) THEN listeners(W, p, message) ELSE W

emit(W, p, message) ==
  IF "type" \in message.has THEN listeners(W, p, message) ELSE W

send(W, p, message, hasTimeout, timeout, callback) ==
  IF ~messageIsValid(message) THEN W
  ELSE
    LET to == message.to
        W1 == IF to = p THEN dispatchMessage(W, p, message) ELSE W
    IN IF has(W1, p, to) /\ get(W1, p, to).status = "open"
       THEN pcSend(W1, p, to, message)
       ELSE IF message.route # <<>> /\ has(W1, p, message.route[1])
       THEN pcSend(W1, p, message.route[1], [message EXCEPT !.route = Tail(@)])
       ELSE IF contains(message.type, forwardableTypes)
       THEN broadcast(W1, p, message)
       ELSE requestPeer(
              [W1 EXCEPT !.queue[p] = Append(@, [message |-> message, callback |-> callback,
                                                  hasTimeout |-> hasTimeout, timeout |-> timeout,
                                                  timestamp |-> W.now]),
                         !.out.enqueued = Append(@, message.data.obj)],
              p, message.to)

\* ------------------------------------------------------------ datachannel.js
\* The two PeerConnection objects negotiated with each other's descriptions.
established(p, i) ==
  LET pc == pcs[p][i]
      q == pc.remotePeer
  IN /\ pc.partner # 0
     /\ pc.localDescription # "none"
     /\ pc.partner <= Len(pcs[q])
     /\ pcs[q][pc.partner].remotePeer = p
     /\ pcs[q][pc.partner].partner = i
     /\ pcs[q][pc.partner].role # pc.role
     /\ pcs[q][pc.partner].localDescription # "none"
     /\ pcs[q][pc.partner].status # "close"

onopen(W, p, i) ==
  dispatchMessage([W EXCEPT !.pcs[p][i].status = "open"], p,
                  ChannelEvent("connected", W.pcs[p][i].remotePeer))

onclose(W, p, i) ==
  dispatchMessage([W EXCEPT !.pcs[p][i].status = "close"], p,
                  ChannelEvent("disconnected", W.pcs[p][i].remotePeer))

\* onmessage that forwards whatever ttl is left.
onmessage_forwardingAlways(W, p, message) ==
  IF message.to = BroadcastNumber \/ message.to = p
  THEN dispatchMessage(W, p, message)
  ELSE forward(W, p, message)

onmessage(W, p, message) ==
  IF message.to = BroadcastNumber \/ message.to = p
  THEN dispatchMessage(W, p, message)
  ELSE IF message.ttl > 0
  THEN forward(W, p, message)
  ELSE W

\* ------------------------------------------------------------------ actions
\* The application calls peer.send(message, timeout, callback).
PeerSend(p, type, to, ttl, timed) ==
  /\ calls < MaxCalls
  /\ LET message == Message(type, p, to, ttl, [obj |-> calls + 1, re |-> 0])
     IN Commit(send(World("send", p, message), p, message, timed, EntryTimeout, timed))
  /\ calls' = calls + 1
  /\ issued' = [issued EXCEPT ![calls + 1] =
                  Message(type, p, to, ttl, [obj |-> calls + 1, re |-> 0])]
  /\ UNCHANGED <<now, ticked, closes>>

\* createOffer and setLocalDescription succeeded: sendOffer(offer)
SDPOffer(p) ==
  \E i \in 1..Len(pcs[p]) :
    /\ pcs[p][i].task = "offer"
    /\ LET pc == pcs[p][i]
           request == [from |-> pc.remotePeer, forwardBy |-> pc.requestForwardBy]
           W == [World("offer", p, NoMessage)
                   EXCEPT !.pcs[p][i].task = "none", !.pcs[p][i].localDescription = "offer"]
       IN Commit(respondTo(W, p, request, "offer", [obj |-> i, re |-> 0]))
    /\ UNCHANGED <<now, ticked, calls, issued, closes>>

\* setRemoteDescription, createAnswer and setLocalDescription succeeded: sendAnswer(answer)
SDPAnswer(p) ==
  \E i \in 1..Len(pcs[p]) :
    /\ pcs[p][i].task = "answer"
    /\ LET pc == pcs[p][i]
           request == [from |-> pc.remotePeer, forwardBy |-> pc.requestForwardBy]
           W == [World("answer", p, NoMessage)
                   EXCEPT !.pcs[p][i].task = "none", !.pcs[p][i].localDescription = "answer"]
       IN Commit(respondTo(W, p, request, "answer", [obj |-> i, re |-> pc.partner]))
    /\ UNCHANGED <<now, ticked, calls, issued, closes>>

\* pc.onicecandidate: a connection with a local description gathered a candidate.
IceCandidate(p) ==
  \E i \in 1..Len(pcs[p]) :
    /\ pcs[p][i].localDescription # "none"
    /\ pcs[p][i].gathered < MaxCandidates
    /\ LET message == Message("icecandidate", p, pcs[p][i].remotePeer, PeerTtl,
                              [obj |-> i, re |-> pcs[p][i].gathered + 1])
           W == [World("candidate", p, message) EXCEPT !.pcs[p][i].gathered = @ + 1]
       IN Commit(send(W, p, message, FALSE, 0, FALSE))
    /\ UNCHANGED <<now, ticked, calls, issued, closes>>

\* The data channel of a negotiated connection opens on p's side.
ChannelOpen(p) ==
  \E i \in 1..Len(pcs[p]) :
    /\ pcs[p][i].status = "connecting"
    /\ established(p, i)
    /\ Commit(onopen(World("open", p, ChannelEvent("connected", pcs[p][i].remotePeer)), p, i))
    /\ UNCHANGED <<now, ticked, calls, issued, closes>>

\* The data channel closes on p's side: torn down, or closed by the other side.
ChannelClose(p) ==
  \E i \in 1..Len(pcs[p]) :
    /\ pcs[p][i].status = "open"
    /\ LET torn == pcs[pcs[p][i].remotePeer][pcs[p][i].partner].status = "close"
       IN /\ torn \/ closes < MaxCloses
          /\ closes' = IF torn THEN closes ELSE closes + 1
    /\ Commit(onclose(World("close", p, ChannelEvent("disconnected", pcs[p][i].remotePeer)), p, i))
    /\ UNCHANGED <<now, ticked, calls, issued>>

\* A message arrives at q over the data channel from p.
ChannelMessage(p, q) ==
  /\ chan[p][q] # <<>>
  /\ LET packet == Head(chan[p][q])
         W == [World("message", q, packet.msg) EXCEPT !.chan[p][q] = Tail(@)]
     IN IF pcs[q][packet.dst].status = "close"
        THEN Commit(W)
        ELSE Commit(onmessage(W, q, packet.msg))
  /\ UNCHANGED <<now, ticked, calls, issued, closes>>

\* The signalling socket of q receives a message relayed from p.
SignalMessage(p, q) ==
  /\ sig[p][q] # <<>>
  /\ LET message == Head(sig[p][q])
         W == [World("signal", q, message) EXCEPT !.sig[p][q] = Tail(@)]
     IN Commit(emit(W, q, message))
  /\ UNCHANGED <<now, ticked, calls, issued, closes>>

\* window.setInterval(processQueue, Peer.queueTimeout): every peer's interval
\* fires at the multiples of Peer.queueTimeout; with an empty queue it does nothing.
TickDue(p) == now > 0 /\ now % PeerQueueTimeout = 0 /\ ~ticked[p] /\ queue[p] # <<>>

Tick(p) ==
  /\ TickDue(p)
  /\ Commit(processQueue(World("tick", p, NoMessage), p))
  /\ ticked' = [ticked EXCEPT ![p] = TRUE]
  /\ UNCHANGED <<now, calls, issued, closes>>

\* Time passes; it is observed only through the age of the queued entries.
Elapse ==
  /\ now + TimeStep <= MaxTime
  /\ \A p \in Peers : ~TickDue(p)
  /\ \/ \E p \in Peers : queue[p] # <<>>
     \/ calls < MaxCalls /\ now + TimeStep < PeerQueueTimeout
  /\ now' = now + TimeStep
  /\ ticked' = [p \in Peers |-> FALSE]
  /\ out' = Out("elapse", "none", NoMessage)
  /\ UNCHANGED <<pcs, connections, queue, chan, sig, fired, handed, calls, issued, closes>>
  /\ UNCHANGED <<gossip, media, emitter, icecandidates>>

\* The Peer after construction.
InitConnections ==
  /\ pcs = [p \in Peers |-> <<>>]
  /\ connections = [p \in Peers |-> [r \in Peers |-> 0]]
  /\ queue = [p \in Peers |-> <<>>]
  /\ chan = [p \in Peers |-> [q \in Peers |-> <<>>]]
  /\ sig = [p \in Peers |-> [q \in Peers |-> <<>>]]
  /\ fired = [n \in 1..MaxCalls |-> 0]
  /\ handed = {}
  /\ out = Out("init", "none", NoMessage)
  /\ now = 0
  /\ ticked = [p \in Peers |-> FALSE]
  /\ calls = 0
  /\ issued = [n \in 1..MaxCalls |-> NoMessage]
  /\ closes = 0
  /\ icecandidates = [p \in Peers |-> [r \in Peers |-> {}]]

\* The Peer without the media extension.
InitPeer ==
  /\ InitConnections
  /\ media = NoMedia
  /\ emitter = NoEmitter

\* What the last call of the gossip code did: the function or handler, the
\* arguments and the result of a function (thread, from, data, sent, merged),
\* the sender and the buffer generated for a handler, the ids whose descriptor
\* a received one replaced, whether the merge exceeded C, and how many times
\* the view was merged and aged.
NoExchange ==
  [op |-> "none", thread |-> "none", from |-> "none", data |-> <<>>, sent |-> <<>>,
   merged |-> {}, replaced |-> {}, overflow |-> FALSE, rounds |-> 0, type |-> "none"]

\* No gossip worker is running.
NoGossip ==
  [C |-> 0, H |-> 0, S |-> 0, view |-> {}, listeners |-> <<>>, last |-> NoExchange]

Init ==
  /\ InitPeer
  /\ gossip = NoGossip

\* A mesh the handshake has built: A - B - C in a line, B answered both offers.
Established(remotePeer, role, partner) ==
  [PeerConnection(remotePeer, role, <<>>, partner)
     EXCEPT !.status = "open", !.task = "none", !.gathered = MaxCandidates,
            !.localDescription = IF role = "offerer" THEN "offer" ELSE "answer"]

InitMesh ==
  /\ pcs = [p \in Peers |->
              CASE p = "A" -> <<Established("B", "offerer", 1)>>
                [] p = "B" -> <<Established("A", "answerer", 1), Established("C", "answerer", 1)>>
                [] p = "C" -> <<Established("B", "offerer", 2)>>
                [] OTHER -> <<>>]
  /\ connections = [p \in Peers |-> [r \in Peers |->
              CASE p = "A" /\ r = "B" -> 1
                [] p = "B" /\ r = "A" -> 1
                [] p = "B" /\ r = "C" -> 2
                [] p = "C" /\ r = "B" -> 1
                [] OTHER -> 0]]
  /\ queue = [p \in Peers |-> <<>>]
  /\ chan = [p \in Peers |-> [q \in Peers |-> <<>>]]
  /\ sig = [p \in Peers |-> [q \in Peers |-> <<>>]]
  /\ fired = [n \in 1..MaxCalls |-> 0]
  /\ handed = {}
  /\ out = Out("init", "none", NoMessage)
  /\ now = 0
  /\ ticked = [p \in Peers |-> FALSE]
  /\ calls = 0
  /\ issued = [n \in 1..MaxCalls |-> NoMessage]
  /\ closes = 0
  /\ icecandidates = [p \in Peers |-> [r \in Peers |-> {}]]
  /\ gossip = NoGossip
  /\ media = NoMedia
  /\ emitter = NoEmitter

Network ==
  \/ \E p \in Peers : SDPOffer(p)
  \/ \E p \in Peers : SDPAnswer(p)
  \/ \E p \in Peers : ChannelOpen(p)
  \/ \E p, q \in Peers : ChannelMessage(p, q)
  \/ \E p, q \in Peers : SignalMessage(p, q)

\* Two peers ask for each other and send to themselves, over the signalling link.
NextHandshake ==
  \/ \E p \in {"A", "B"}, to \in {"A", "B"} :
       p # to /\ PeerSend(p, "request-peer", to, PeerTtl, FALSE)
  \/ \E type \in {"request-peer", QueueableType} : PeerSend("A", type, "A", PeerTtl, FALSE)
  \/ \E p \in Peers : ChannelClose(p)
  \/ Network

\* A peer sends queueable messages to a peer it is not connected to yet.
NextQueue ==
  \/ \E timed \in BOOLEAN : PeerSend("A", QueueableType, "B", PeerTtl, timed)
  \/ \E p \in Peers : Tick(p)
  \/ Elapse
  \/ Network

\* Connection requests travel over the established mesh.
NextMesh ==
  \/ \E to \in {"C", BroadcastString}, ttl \in {1, PeerTtl} :
       PeerSend("A", "request-peer", to, ttl, FALSE)
  \/ Network

SpecHandshake == Init /\ [][NextHandshake]_vars
SpecQueue == Init /\ [][NextQueue]_vars
SpecMesh == InitMesh /\ [][NextMesh]_vars

\* A longer mesh: A - B - C - D in a line, so that a request from A reaches D
\* through two forwarders.
InitRoute ==
  /\ pcs = [p \in Peers |->
              CASE p = "A" -> <<Established("B", "offerer", 1)>>
                [] p = "B" -> <<Established("A", "answerer", 1), Established("C", "answerer", 1)>>
                [] p = "C" -> <<Established("B", "offerer", 2), Established("D", "answerer", 1)>>
                [] p = "D" -> <<Established("C", "offerer", 2)>>]
  /\ connections = [p \in Peers |-> [r \in Peers |->
              CASE p = "A" /\ r = "B" -> 1
                [] p = "B" /\ r = "A" -> 1
                [] p = "B" /\ r = "C" -> 2
                [] p = "C" /\ r = "B" -> 1
                [] p = "C" /\ r = "D" -> 2
                [] p = "D" /\ r = "C" -> 1
                [] OTHER -> 0]]
  /\ queue = [p \in Peers |-> <<>>]
  /\ chan = [p \in Peers |-> [q \in Peers |-> <<>>]]
  /\ sig = [p \in Peers |-> [q \in Peers |-> <<>>]]
  /\ fired = [n \in 1..MaxCalls |-> 0]
  /\ handed = {}
  /\ out = Out("init", "none", NoMessage)
  /\ now = 0
  /\ ticked = [p \in Peers |-> FALSE]
  /\ calls = 0
  /\ issued = [n \in 1..MaxCalls |-> NoMessage]
  /\ closes = 0
  /\ icecandidates = [p \in Peers |-> [r \in Peers |-> {}]]
  /\ gossip = NoGossip
  /\ media = NoMedia
  /\ emitter = NoEmitter

\* A asks over the mesh for a connection to C, to D, or to no particular peer.
NextRoute ==
  \/ \E to \in {"C", "D", BroadcastString} :
       PeerSend("A", "request-peer", to, PeerTtl, FALSE)
  \/ Network

SpecRoute == InitRoute /\ [][NextRoute]_vars

\* A mesh with two paths: A - B - C and A - D - C, A and C not connected.
InitDiamond ==
  /\ pcs = [p \in Peers |->
              CASE p = "A" -> <<Established("B", "offerer", 1), Established("D", "offerer", 1)>>
                [] p = "B" -> <<Established("A", "answerer", 1), Established("C", "answerer", 1)>>
                [] p = "C" -> <<Established("B", "offerer", 2), Established("D", "offerer", 2)>>
                [] p = "D" -> <<Established("A", "answerer", 2), Established("C", "answerer", 2)>>]
  /\ connections = [p \in Peers |-> [r \in Peers |->
              CASE p = "A" /\ r = "B" -> 1
                [] p = "A" /\ r = "D" -> 2
                [] p = "B" /\ r = "A" -> 1
                [] p = "B" /\ r = "C" -> 2
                [] p = "C" /\ r = "B" -> 1
                [] p = "C" /\ r = "D" -> 2
                [] p = "D" /\ r = "A" -> 1
                [] p = "D" /\ r = "C" -> 2
                [] OTHER -> 0]]
  /\ queue = [p \in Peers |-> <<>>]
  /\ chan = [p \in Peers |-> [q \in Peers |-> <<>>]]
  /\ sig = [p \in Peers |-> [q \in Peers |-> <<>>]]
  /\ fired = [n \in 1..MaxCalls |-> 0]
  /\ handed = {}
  /\ out = Out("init", "none", NoMessage)
  /\ now = 0
  /\ ticked = [p \in Peers |-> FALSE]
  /\ calls = 0
  /\ issued = [n \in 1..MaxCalls |-> NoMessage]
  /\ closes = 0
  /\ icecandidates = [p \in Peers |-> [r \in Peers |-> {}]]
  /\ gossip = NoGossip
  /\ media = NoMedia
  /\ emitter = NoEmitter

\* A asks for a connection to C; the new connections gather ICE candidates.
\* Every peer of this mesh has an open neighbour, so nothing is given to the
\* signalling link.
NextIce ==
  \/ PeerSend("A", "request-peer", "C", PeerTtl, FALSE)
  \/ \E p \in Peers : IceCandidate(p)
  \/ \E p \in Peers : SDPOffer(p)
  \/ \E p \in Peers : SDPAnswer(p)
  \/ \E p \in Peers : ChannelOpen(p)
  \/ \E p, q \in Peers : ChannelMessage(p, q)

SpecIce == InitDiamond /\ [][NextIce]_vars

\* The types of the events a peer dispatches for its own data channels.
InternalTypes == {"connected", "disconnected"}

\* B sends a queueable message to A, which it has no connection to, and A
\* sends B a message whose type is that of an internal event.
NextInternal ==
  \/ PeerSend("B", QueueableType, "A", PeerTtl, FALSE)
  \/ \E type \in InternalTypes : PeerSend("A", type, "B", PeerTtl, FALSE)
  \/ Network

SpecInternal == Init /\ [][NextInternal]_vars

\* -------------------------------------------------------------- gossipRPS.js
MaxAge == 2          \* descriptors are not aged beyond this
MaxListeners == 2    \* answer listeners the active thread registers
MaxRecv == 2         \* descriptors in a buffer received from a remote peer

GossipSelf == "A"
GossipRemotes == {"B", "C", "D"}
GossipOptions == {[C |-> c, H |-> h, S |-> s] : c \in {1, 2, 3, 4}, h \in {0, 1}, s \in {0, 1}}

Descriptor(id, age) == [id |-> id, age |-> age]

selfDescriptor == Descriptor(GossipSelf, 0)

\* view.sort((a, b) => a.age - b.age).slice(0, n); descriptors of equal age come
\* in any order.
youngest(n, view) ==
  {h \in SUBSET view : /\ Cardinality(h) = Min(Max(n, 0), Cardinality(view))
                       /\ \A x \in h : \A y \in view \ h : x.age <= y.age}

\* shuffleArray(view).slice(0, size); a negative size counts from the end.
randomSubview(size, view) ==
  {sub \in SUBSET view :
     Cardinality(sub) = IF size >= 0 THEN Min(size, Cardinality(view))
                        ELSE Max(Cardinality(view) + size, 0)}

\* The whole number slice makes of half of size2: it drops the fraction.
half(size2) == IF size2 >= 0 THEN size2 \div 2 ELSE 0 - ((0 - size2) \div 2)

\* computeBuffer of genBuffer; bufferSize2 is twice the buffer size, which is
\* C / 2 or C / 2 - 1 and need not be whole; slice truncates it.
computeBuffer(bufferSize2, distantId, view) ==
  LET filtered == {elmt \in view : elmt.id # distantId}
      len == Cardinality(filtered)
      H == gossip.H
      headLen == IF H = 0 THEN 0 ELSE Max(len - H, 0)
  IN IF 2 * len < bufferSize2
     THEN {filtered}
     ELSE UNION {
            LET tail == filtered \ head
            IN IF bufferSize2 < 2 * headLen
               THEN randomSubview(half(bufferSize2), head)
               ELSE IF bufferSize2 = 2 * headLen
               THEN {head}
               ELSE {head \cup sub :
                       sub \in randomSubview(half(bufferSize2 - 2 * headLen), tail)}
            : head \in youngest(headLen, filtered)}

\* genBuffer leaving no room for the peer's own descriptor.
genBuffer_withoutRoomForSelf(thread, distantId, view) ==
  IF thread = "active"
  THEN {Append(SetToSeq(b), selfDescriptor) : b \in computeBuffer(gossip.C, distantId, view)}
  ELSE {SetToSeq(b) : b \in computeBuffer(gossip.C, distantId, view)}

\* The buffers genBuffer can return.
genBuffer(thread, distantId, view) ==
  IF thread = "active"
  THEN {Append(SetToSeq(b), selfDescriptor) : b \in computeBuffer(gossip.C - 2, distantId, view)}
  ELSE {SetToSeq(b) : b \in computeBuffer(gossip.C, distantId, view)}

\* The forEach of mergeView putting a received descriptor in place of a
\* younger one.
RECURSIVE mergeEach_keepingOlder(_, _)
mergeEach_keepingOlder(recvBuffer, view) ==
  IF recvBuffer = <<>> THEN view
  ELSE LET descriptor == Head(recvBuffer)
           present == {e \in view : e.id = descriptor.id}
           merged == IF descriptor.id = GossipSelf THEN view
                     ELSE IF present = {} THEN view \cup {descriptor}
                     ELSE LET old == CHOOSE e \in present : TRUE
                          IN IF descriptor.age > old.age
                             THEN (view \ {old}) \cup {descriptor}
                             ELSE view
       IN mergeEach_keepingOlder(Tail(recvBuffer), merged)

\* The forEach of mergeView: a received descriptor is added if its id is new
\* and replaces the one in the view if it is strictly younger.
RECURSIVE mergeEach(_, _)
mergeEach(recvBuffer, view) ==
  IF recvBuffer = <<>> THEN view
  ELSE LET descriptor == Head(recvBuffer)
           present == {e \in view : e.id = descriptor.id}
           merged == IF descriptor.id = GossipSelf THEN view
                     ELSE IF present = {} THEN view \cup {descriptor}
                     ELSE LET old == CHOOSE e \in present : TRUE
                          IN IF descriptor.age < old.age
                             THEN (view \ {old}) \cup {descriptor}
                             ELSE view
       IN mergeEach(Tail(recvBuffer), merged)

\* mergeView without the last removal, of random descriptors.
\* mergeView whose healing removes descriptors of any age.
mergeView_healingAtRandom(recvBuffer, sentBuffer, view) ==
  LET merged == mergeEach(recvBuffer, view)
      healed == randomSubview(Cardinality(merged)
                                - Min(gossip.H, Max(0, Cardinality(merged) - gossip.C)), merged)
      swap(v) ==
        LET numberToRemove == Min(gossip.S, Max(0, Cardinality(v) - gossip.C))
        IN {v \ {sentBuffer[i] : i \in picked} :
              picked \in {ix \in SUBSET (1..Len(sentBuffer)) :
                            Cardinality(ix) = Min(numberToRemove, Len(sentBuffer))}}
      cut(v) == IF Cardinality(v) > gossip.C THEN randomSubview(gossip.C, v) ELSE {v}
  IN UNION {UNION {cut(w) : w \in swap(v)} : v \in healed}

mergeView_withoutRandomRemoval(recvBuffer, sentBuffer, view) ==
  LET merged == mergeEach(recvBuffer, view)
      healed == youngest(Cardinality(merged)
                           - Min(gossip.H, Max(0, Cardinality(merged) - gossip.C)), merged)
      swap(v) ==
        LET numberToRemove == Min(gossip.S, Max(0, Cardinality(v) - gossip.C))
        IN {v \ {sentBuffer[i] : i \in picked} :
              picked \in {ix \in SUBSET (1..Len(sentBuffer)) :
                            Cardinality(ix) = Min(numberToRemove, Len(sentBuffer))}}
  IN UNION {swap(v) : v \in healed}

\* The views mergeView can return.
mergeView(recvBuffer, sentBuffer, view) ==
  LET merged == mergeEach(recvBuffer, view)
      healed == youngest(Cardinality(merged)
                           - Min(gossip.H, Max(0, Cardinality(merged) - gossip.C)), merged)
      swap(v) ==
        LET numberToRemove == Min(gossip.S, Max(0, Cardinality(v) - gossip.C))
        IN {v \ {sentBuffer[i] : i \in picked} :
              picked \in {ix \in SUBSET (1..Len(sentBuffer)) :
                            Cardinality(ix) = Min(numberToRemove, Len(sentBuffer))}}
      cut(v) == IF Cardinality(v) > gossip.C THEN randomSubview(gossip.C, v) ELSE {v}
  IN UNION {UNION {cut(w) : w \in swap(v)} : v \in healed}

increaseAge(view) == {Descriptor(d.id, d.age + 1) : d \in view}

\* ------------------------------------------------------------ gossipWorker.js
\* A descriptor held in a buffer; live says that it is the very object the
\* view holds for its id, which increaseAge ages in place.
Entry(d, live) == [id |-> d.id, age |-> d.age, live |-> live]
Desc(e) == Descriptor(e.id, e.age)
Descs(buffer) == [i \in DOMAIN buffer |-> Desc(buffer[i])]
Entries(buffer, live) == [i \in DOMAIN buffer |-> Entry(buffer[i], live /\ buffer[i].id # GossipSelf)]

\* The buffer after an exchange whose mergeView returned final: an entry stays
\* the view's object if the view keeps it, and is then one unit older.
aged(buffer, final) ==
  [i \in DOMAIN buffer |->
     LET e == buffer[i]
     IN IF e.live /\ Desc(e) \in final
        THEN [e EXCEPT !.age = e.age + 1]
        ELSE [e EXCEPT !.live = FALSE]]

\* The received buffer after the forEach of mergeView: the first descriptor
\* that was pushed or put in place of an older one is now the view's object.
adopted(data, view, merged) ==
  [i \in DOMAIN data |->
     LET e == data[i]
     IN IF e.live THEN e
        ELSE [e EXCEPT !.live =
                /\ e.id # GossipSelf
                /\ Desc(e) \in merged
                /\ Desc(e) \notin view
                /\ \A j \in 1..(i - 1) : data[j].live \/ Desc(data[j]) # Desc(e)]]

\* this.view = increaseAge(mergeView(data, sentBuffer, this.view)) with the
\* worker's state: view, listeners, the message's data, and what happened.
exchange(st, sentBuffer) ==
  LET recvBuffer == Descs(st.data)
      merged == mergeEach(recvBuffer, st.view)
      data == adopted(st.data, st.view, merged)
  IN {[view |-> increaseAge(final),
       listeners |-> [k \in DOMAIN st.listeners |->
                        [st.listeners[k] EXCEPT !.sentBuffer = aged(@, final)]],
       data |-> aged(data, final),
       sent |-> aged(st.sent, final),
       replaced |-> st.replaced \cup {d.id : d \in st.view \ merged},
       overflow |-> st.overflow \/ Cardinality(merged) > gossip.C,
       rounds |-> st.rounds + 1] :
        final \in mergeView(recvBuffer, Descs(sentBuffer), st.view)}

workerState(data) ==
  [view |-> gossip.view, listeners |-> gossip.listeners,
   data |-> Entries(data, FALSE), sent |-> <<>>,
   replaced |-> {}, overflow |-> FALSE, rounds |-> 0]

\* The states passiveThread can leave the worker in.
passiveThread(message) ==
  UNION {exchange([workerState(message.data) EXCEPT !.sent = Entries(sentBuffer, TRUE)],
                  Entries(sentBuffer, TRUE)) :
           sentBuffer \in genBuffer("passive", message.from, gossip.view)}

\* The listeners of gossip:answer-exchange from the k-th on, called in the
\* order of their registration; none of them is ever removed, because
\* removeListener is given the function that was bound, not the listener.
\* callback that merges into the view as it was when the request was sent.
RECURSIVE callback_onViewAtSend(_, _, _)
callback_onViewAtSend(k, message, st) ==
  IF k > Len(st.listeners) THEN {st}
  ELSE IF message.from # st.listeners[k].distantId
  THEN callback_onViewAtSend(k + 1, message, st)
  ELSE UNION {callback_onViewAtSend(k + 1, message, nx) :
                nx \in exchange([st EXCEPT !.view = st.listeners[k].view],
                                st.listeners[k].sentBuffer)}

RECURSIVE callback(_, _, _)
callback(k, message, st) ==
  IF k > Len(st.listeners) THEN {st}
  ELSE IF message.from # st.listeners[k].distantId
  THEN callback(k + 1, message, st)
  ELSE UNION {callback(k + 1, message, nx) : nx \in exchange(st, st.listeners[k].sentBuffer)}

\* ------------------------------------------------------------ gossip actions
RecvAges == {0, 1}
RecvIds == GossipRemotes \cup {GossipSelf}

RECURSIVE Buffers(_)
Buffers(n) ==
  IF n = 0 THEN {<<>>}
  ELSE Buffers(n - 1) \cup
       {Append(b, Descriptor(id, age)) :
          b \in {x \in Buffers(n - 1) : Len(x) = n - 1}, id \in RecvIds, age \in RecvAges}

RecvBuffers == Buffers(MaxRecv)

\* The views with one descriptor for each of some remote peers.
Views ==
  UNION {[ids -> RecvAges] : ids \in SUBSET GossipRemotes}

viewOf(f) == {Descriptor(id, f[id]) : id \in DOMAIN f}

Oldest(view, data) ==
  LET ages == {d.age : d \in view} \cup {data[i].age : i \in DOMAIN data}
  IN IF ages = {} THEN 0 ELSE CHOOSE a \in ages : \A b \in ages : b <= a

\* genBuffer applied to the view.
GenBuffer(thread, distantId) ==
  /\ \E buffer \in genBuffer(thread, distantId, gossip.view) :
       gossip' = [gossip EXCEPT !.last =
                    [NoExchange EXCEPT !.op = "genBuffer", !.thread = thread,
                                       !.from = distantId, !.sent = buffer]]
  /\ UNCHANGED peerVars

\* mergeView applied to the view.
MergeView(recvBuffer, sentBuffer) ==
  /\ \E view \in mergeView(recvBuffer, sentBuffer, gossip.view) :
       gossip' = [gossip EXCEPT !.last =
                    [NoExchange EXCEPT !.op = "mergeView", !.data = recvBuffer,
                                       !.sent = sentBuffer, !.merged = view]]
  /\ UNCHANGED peerVars

\* increaseAge applied to the view.
IncreaseAge ==
  /\ gossip' = [gossip EXCEPT !.last =
                  [NoExchange EXCEPT !.op = "increaseAge", !.merged = increaseAge(gossip.view)]]
  /\ UNCHANGED peerVars

\* The interval of onfirstview runs activeThread.
ActiveThread ==
  /\ gossip.view # {}
  /\ Len(gossip.listeners) < MaxListeners
  /\ \E distantId \in {d.id : d \in gossip.view} :
       \E sentBuffer \in genBuffer("active", distantId, gossip.view) :
         gossip' = [gossip EXCEPT
                      !.listeners = Append(@, [distantId |-> distantId,
                                               sentBuffer |-> Entries(sentBuffer, TRUE),
                                               view |-> gossip.view]),
                      !.last = [NoExchange EXCEPT !.op = "active", !.thread = "active",
                                                  !.from = distantId, !.sent = sentBuffer]]
  /\ UNCHANGED peerVars

Committed(op, message, st) ==
  [gossip EXCEPT
     !.view = st.view,
     !.listeners = st.listeners,
     !.last = [NoExchange EXCEPT !.op = op, !.from = message.from, !.sent = Descs(st.sent),
                                 !.data = message.data,
                                 !.replaced = st.replaced, !.overflow = st.overflow,
                                 !.rounds = st.rounds]]

\* A gossip:request-exchange message is dispatched to the worker.
PassiveThread(message) ==
  /\ Oldest(gossip.view, message.data) < MaxAge
  /\ \E st \in passiveThread(message) : gossip' = Committed("passive", message, st)
  /\ UNCHANGED peerVars

\* A gossip:answer-exchange message is dispatched to the worker.
AnswerExchange(message) ==
  /\ Oldest(gossip.view, message.data) + Len(gossip.listeners) <= MaxAge
  /\ \E st \in callback(1, message, workerState(message.data)) :
       gossip' = Committed("answer", message, st)
  /\ UNCHANGED peerVars

InitGossipRPS ==
  /\ InitPeer
  /\ gossip \in {[C |-> o.C, H |-> o.H, S |-> o.S, view |-> viewOf(f),
                  listeners |-> <<>>, last |-> NoExchange] :
                   o \in GossipOptions, f \in Views}

\* Each function is applied once to the inputs Init has drawn.
NextGossipRPS ==
  /\ gossip.last.op = "none"
  /\ \/ \E thread \in {"active", "passive"} : \E distantId \in RecvIds :
          GenBuffer(thread, distantId)
     \/ \E recvBuffer \in RecvBuffers :
          \E from \in GossipRemotes : \E sentBuffer \in genBuffer("passive", from, gossip.view) :
            MergeView(recvBuffer, sentBuffer)
     \/ IncreaseAge

SpecGossipRPS == InitGossipRPS /\ [][NextGossipRPS]_vars

\* The options the worker is started with: views of one or two peers.
WorkerOptions == {o \in GossipOptions : o.C <= 2}

\* The worker after first-view: a view of fresh descriptors of at most C peers.
InitGossip ==
  /\ InitPeer
  /\ gossip \in {[C |-> o.C, H |-> o.H, S |-> o.S, view |-> {Descriptor(id, 0) : id \in ids},
                  listeners |-> <<>>, last |-> NoExchange] :
                   o \in WorkerOptions, ids \in SUBSET GossipRemotes}
  /\ Cardinality(gossip.view) <= gossip.C

NextGossip ==
  \/ ActiveThread
  \/ \E from \in GossipRemotes : \E data \in Buffers(1) :
       PassiveThread([from |-> from, data |-> data])
  \/ \E from \in GossipRemotes : \E data \in Buffers(1) :
       AnswerExchange([from |-> from, data |-> data])

SpecGossip == InitGossip /\ [][NextGossip]_vars

\* ------------------------------------------------------------------ gossip.js
\* The message types the Gossip mixin listens to at the peer and posts to its worker.
GossipRelayed ==
  {"first-view", "gossip:request-exchange", "gossip:answer-request", "gossip:descriptor-update"}

\* The types remote peers send to the gossip layer, and the one the mixin names.
GossipTypes == {"gossip:request-exchange", "gossip:answer-exchange", "gossip:answer-request"}

\* A gossip message from a remote peer is dispatched at the peer: the mixin
\* posts it to the worker if it listens to the type, and the worker runs the
\* listeners it has for the type.
GossipMessage(type, message) ==
  IF type \in GossipRelayed /\ type = "gossip:request-exchange"
  THEN /\ Oldest(gossip.view, message.data) < MaxAge
       /\ \E st \in passiveThread(message) :
            gossip' = [Committed("passive", message, st) EXCEPT !.last.type = type]
       /\ UNCHANGED peerVars
  ELSE IF type \in GossipRelayed /\ type = "gossip:answer-exchange"
  THEN /\ Oldest(gossip.view, message.data) + Len(gossip.listeners) <= MaxAge
       /\ \E st \in callback(1, message, workerState(message.data)) :
            gossip' = [Committed("answer", message, st) EXCEPT !.last.type = type]
       /\ UNCHANGED peerVars
  ELSE /\ gossip' = [gossip EXCEPT !.last = [NoExchange EXCEPT !.op = "unheard", !.type = type,
                                                              !.from = message.from]]
       /\ UNCHANGED peerVars

\* The peer with the Gossip mixin: its worker gossips, remote peers send to it.
NextGossipPeer ==
  \/ ActiveThread
  \/ \E type \in GossipTypes, from \in GossipRemotes : \E data \in Buffers(1) :
       GossipMessage(type, [from |-> from, data |-> data])

SpecGossipPeer == InitGossip /\ [][NextGossipPeer]_vars

\* ------------------------------------------------------------- media actions
connVars == <<pcs, connections, queue, chan, sig, fired, handed, out, now, ticked, calls, issued, closes,
              icecandidates>>

MediaRemotes == {"B", "C"}

\* The remotes a view update can have left: some peers, each with a list of parts.
Remotes ==
  UNION {{[ids |-> ids, parts |-> [r \in Peers |-> IF r \in ids THEN f[r] ELSE {}]] :
            f \in [ids -> SUBSET PartNumbers]} :
           ids \in SUBSET MediaRemotes}

\* nextPartsToDownload applied to the media.
NextPartsToDownload(howMany, shuffled) ==
  /\ media' = [media EXCEPT !.last =
                 [NoCall EXCEPT !.op = "nextPartsToDownload", !.howMany = howMany,
                                !.choices = nextPartsToDownload(media, howMany, shuffled)]]
  /\ UNCHANGED <<connVars, gossip, emitter>>

\* A media with parts in any status and remotes as a view update left them.
InitParts ==
  /\ InitConnections
  /\ gossip = NoGossip
  /\ emitter = NoEmitter
  /\ media \in {[NoMedia EXCEPT !.parts = [i \in DOMAIN st |-> Part(st[i])],
                                !.remoteIds = r.ids, !.remotes = r.parts] :
                  st \in UNION {[1..n -> Statuses] : n \in 0..MaxParts}, r \in Remotes}

\* peerHasPart applied to the media, for the part numbers the tests ask about:
\* one below the list, those of the list, and those past its end.
PeerHasPart(partNumber) ==
  /\ media' = [media EXCEPT !.last =
                 [NoCall EXCEPT !.op = "peerHasPart", !.number = partNumber,
                                !.result = peerHasPart(media, partNumber).value,
                                !.error = peerHasPart(media, partNumber).thrown]]
  /\ UNCHANGED <<connVars, gossip, emitter>>

\* One function is applied once to the media Init has drawn.
NextParts ==
  /\ media.last.op = "none"
  /\ \/ \E howMany \in 0..MaxParts :
          \E shuffled \in [{pNbr \in PartNumbers : /\ pNbr < Len(media.parts)
                                                   /\ media.parts[pNbr + 1].status = "needed"}
                             -> Orders(media.remoteIds)] :
            NextPartsToDownload(howMany, shuffled)
     \/ \E partNumber \in (0 - 1)..MaxParts : PeerHasPart(partNumber)

SpecParts == InitParts /\ [][NextParts]_vars

\* ......................................................... the emitter
otherVars == <<connVars, gossip, media>>

On(messageType, listener) ==
  emitter' = on(emitter, messageType, listener) /\ UNCHANGED otherVars

RemoveListener(messageType, listener) ==
  emitter' = removeListener(emitter, messageType, listener) /\ UNCHANGED otherVars

RemoveAllListeners(messageType) ==
  emitter' = removeAllListeners(emitter, messageType) /\ UNCHANGED otherVars

DispatchMessage(type) ==
  emitter' = emitterDispatch(emitter, type) /\ UNCHANGED otherVars

InitEmitter ==
  /\ InitConnections
  /\ gossip = NoGossip
  /\ media = NoMedia
  /\ emitter = NoEmitter

NextEmitter ==
  \/ \E messageType \in EmitterTypes, listener \in EmitterListeners : On(messageType, listener)
  \/ \E messageType \in EmitterTypes, listener \in EmitterListeners :
       RemoveListener(messageType, listener)
  \/ \E messageType \in EmitterTypes \cup {Undefined} : RemoveAllListeners(messageType)
  \/ \E type \in EmitterTypes : DispatchMessage(type)

SpecEmitter == InitEmitter /\ [][NextEmitter]_vars

\* ...................................................... chunks of a part
MaxBytes == 4        \* bytes of a part
MaxChunkSize == 3    \* chunkSize given to getChunkedPart

ByteValues == {0, 1}
PartBuffers == UNION {[1..n -> ByteValues] : n \in 1..MaxBytes}

\* getChunkedPart applied to the part Init has drawn.
GetChunkedPart ==
  /\ media.last.op = "none"
  /\ media' = [media EXCEPT !.last.op = "getChunkedPart",
                            !.last.chunked = getChunkedPart(media.last.chunkSize, media.last.bytes)]
  /\ UNCHANGED <<connVars, gossip, emitter>>

\* A held part of 1..MaxBytes bytes and a chunk size.
InitChunks ==
  /\ InitConnections
  /\ gossip = NoGossip
  /\ emitter = NoEmitter
  /\ \E part \in PartBuffers, chunkSize \in 1..MaxChunkSize :
       media = [NoMedia EXCEPT !.last.bytes = part, !.last.chunkSize = chunkSize]

NextChunks == GetChunkedPart

SpecChunks == InitChunks /\ [][NextChunks]_vars

\* ---------------------------------------------------- byte ranges of a media
MaxFileSize == 6     \* size in bytes of the media file

\* The metadata of a file: the clusters start after a head of at least one
\* byte, at increasing offsets inside the file.
Offsets == UNION {[1..n -> 1..(MaxFileSize - 1)] : n \in 1..MaxParts}
Metadatas ==
  {meta \in [clusters : Offsets, size : 1..MaxFileSize] :
     /\ \A i \in 1..(Len(meta.clusters) - 1) : meta.clusters[i] < meta.clusters[i + 1]
     /\ meta.clusters[Len(meta.clusters)] < meta.size}

GetRangeOfPart(partNumber) ==
  /\ partNumber < Len(media.metadata.clusters)
  /\ media' = [media EXCEPT !.last = [NoCall EXCEPT !.op = "getRangeOfPart",
                                                    !.number = partNumber,
                                                    !.range = getRangeOfPart(media, partNumber)]]
  /\ UNCHANGED <<connVars, gossip, emitter>>

GetRangeOfHead ==
  /\ media' = [media EXCEPT !.last = [NoCall EXCEPT !.op = "getRangeOfHead",
                                                    !.range = getRangeOfHead(media)]]
  /\ UNCHANGED <<connVars, gossip, emitter>>

InitRanges ==
  /\ InitConnections
  /\ gossip = NoGossip
  /\ emitter = NoEmitter
  /\ \E meta \in Metadatas :
       media = [setMetadata(NoMedia, Len(meta.clusters)) EXCEPT !.metadata = meta]

NextRanges ==
  \/ \E partNumber \in PartNumbers : GetRangeOfPart(partNumber)
  \/ GetRangeOfHead

SpecRanges == InitRanges /\ [][NextRanges]_vars

\* --------------------------------------------------- remotes of a media
\* The descriptors a view can hold for a peer: without media, or listing some
\* URLs, with any parts for the tracked URL.
NodeDescriptors ==
  {NodeDescriptor(id, FALSE, {}, [url \in Urls |-> {}]) : id \in MediaRemotes}
    \cup {NodeDescriptor(id, TRUE, urls,
                         [url \in Urls |-> IF url \notin urls THEN {}
                                           ELSE IF url = MediaUrl THEN parts ELSE {0}]) :
            id \in MediaRemotes, urls \in SUBSET Urls,
            parts \in SUBSET (0..(Clusters - 1))}

\* The views: at most one descriptor for a peer.
MediaViews ==
  UNION {{{f[id] : id \in ids} :
            f \in {g \in [ids -> NodeDescriptors] : \A id \in ids : g[id].id = id}} :
          ids \in SUBSET MediaRemotes}

\* gossip:view-update is dispatched at the media peer.
ViewUpdate(view) ==
  /\ media' = [updateRemoteInformation(media, view)
                 EXCEPT !.last = [NoCall EXCEPT !.op = "gossip:view-update", !.view = view]]
  /\ UNCHANGED <<connVars, gossip, emitter>>

\* The media peer tracks a media of Clusters parts; earlier view updates left
\* it any remotes.
InitRemotes ==
  /\ InitConnections
  /\ gossip = NoGossip
  /\ emitter = NoEmitter
  /\ \E view \in MediaViews :
       media = updateRemoteInformation(setMetadata(NoMedia, Clusters), view)

NextRemotes == \E view \in MediaViews : ViewUpdate(view)

SpecRemotes == InitRemotes /\ [][NextRemotes]_vars

\* ......................................................... the media peer
MaxRemoteParts == 1  \* media:part messages the remote peers send

\* getRemoteFile resolved with the head: the peer dispatches media:head to itself.
OnHead ==
  /\ ~media.head
  /\ LET message == LocalMessage("media:head", MediaPeerId, 0)
     IN Commit(dispatchMessage(World("head", MediaPeerId, message), MediaPeerId, message))
  /\ UNCHANGED <<now, ticked, calls, issued, closes>>

\* 'sourceopen' of the media source: the source buffer is added and given the head.
SourceOpen ==
  /\ media.head
  /\ media.sourceBuffer = "none"
  /\ Commit([World("sourceopen", MediaPeerId, NoMessage)
               EXCEPT !.media.sourceBuffer = "updating", !.media.last.op = "sourceopen"])
  /\ UNCHANGED <<now, ticked, calls, issued, closes>>

\* 'updateend' of the source buffer.
UpdateEnd ==
  /\ media.sourceBuffer = "updating"
  /\ Commit([World("updateend", MediaPeerId, NoMessage)
               EXCEPT !.media = appendQueuedParts([@ EXCEPT !.sourceBuffer = "idle",
                                                            !.last.op = "updateend"])])
  /\ UNCHANGED <<now, ticked, calls, issued, closes>>

\* The XHR of getRemoteFile is DONE: with the range status the promise resolves
\* and the part is dispatched as media:part, with another status it is rejected.
FetchDone(partNumber, resolved) ==
  /\ partNumber \in media.fetching
  /\ LET message == LocalMessage("media:part", MediaPeerId, partNumber)
         W == [World("fetched", MediaPeerId, message)
                 EXCEPT !.media.fetching = @ \ {partNumber}]
     IN IF resolved
        THEN Commit(dispatchMessage(W, MediaPeerId, message))
        ELSE Commit([W EXCEPT !.media.failed = @ \cup {partNumber},
                              !.media.last.op = "reject",
                              !.media.last.number = partNumber])
  /\ UNCHANGED <<now, ticked, calls, issued, closes>>

\* A remote peer sends a media:part over its open channel to the media peer: a
\* chunk of an answer, an answer sent twice, or a part nobody asked for.
RemotePart(q, partNumber, chunk) ==
  /\ media.received < MaxRemoteParts
  /\ chan[q][MediaPeerId] = <<>>
  /\ connections[q][MediaPeerId] # 0
  /\ pcs[q][connections[q][MediaPeerId]].status = "open"
  /\ LET message == Message("media:part", q, MediaPeerId, PeerTtl,
                            [obj |-> PartObj(partNumber), re |-> chunk])
         W == [World("respond", q, message) EXCEPT !.media.received = @ + 1]
     IN Commit(pcSend(W, q, MediaPeerId, message))
  /\ UNCHANGED <<now, ticked, calls, issued, closes>>

\* The interval of the media peer: the callbacks of the requests that timed out run.
MediaTick ==
  /\ TickDue(MediaPeerId)
  /\ Commit(downloadFromServer(processQueue(World("tick", MediaPeerId, NoMessage), MediaPeerId),
                               MediaPeerId))
  /\ ticked' = [ticked EXCEPT ![MediaPeerId] = TRUE]
  /\ UNCHANGED <<now, calls, issued, closes>>

\* The media peer has the metadata of a media of Clusters parts; a view
\* update told it that peer B has the first part; B is connected or not.
InitMedia ==
  /\ queue = [p \in Peers |-> <<>>]
  /\ chan = [p \in Peers |-> [q \in Peers |-> <<>>]]
  /\ sig = [p \in Peers |-> [q \in Peers |-> <<>>]]
  /\ fired = [n \in 1..MaxCalls |-> 0]
  /\ handed = {}
  /\ out = Out("init", "none", NoMessage)
  /\ now = 0
  /\ ticked = [p \in Peers |-> FALSE]
  /\ calls = 0
  /\ issued = [n \in 1..MaxCalls |-> NoMessage]
  /\ closes = 0
  /\ icecandidates = [p \in Peers |-> [r \in Peers |-> {}]]
  /\ gossip = NoGossip
  /\ emitter = NoEmitter
  /\ \E connected \in BOOLEAN :
       /\ pcs = [p \in Peers |->
                   CASE connected /\ p = "A" -> <<Established("B", "offerer", 1)>>
                     [] connected /\ p = "B" -> <<Established("A", "answerer", 1)>>
                     [] OTHER -> <<>>]
       /\ connections = [p \in Peers |-> [r \in Peers |->
                   IF connected /\ <<p, r>> \in {<<"A", "B">>, <<"B", "A">>} THEN 1 ELSE 0]]
  /\ media = [setMetadata(NoMedia, Clusters) EXCEPT !.remoteIds = {"B"}, !.remotes["B"] = {0}]

NextMedia ==
  \/ OnHead
  \/ SourceOpen
  \/ UpdateEnd
  \/ \E partNumber \in PartNumbers, resolved \in BOOLEAN : FetchDone(partNumber, resolved)
  \/ \E partNumber \in 0..(Clusters - 1), chunk \in ChunkCodes : RemotePart("B", partNumber, chunk)
  \/ MediaTick
  \/ Elapse
  \/ Network

SpecMedia == InitMedia /\ [][NextMedia]_vars

\* ------------------------------------------------------------------- claims
\* C1: a send whose `to` is the sending peer's own id dispatches the message to
\* the local listeners exactly once and does nothing else: it hands the message
\* to no connection, gives it to no broadcast or signalling link, adds no queue
\* entry and emits no request-peer.
C1_SelfSendOnlyDispatches ==
  (out.op = "send" /\ out.msg.to = out.peer) =>
    /\ out.dispatched = <<out.msg>>
    /\ out.sent = {}
    /\ out.signalled = <<>>
    /\ out.enqueued = <<>>
    /\ out.requested = <<>>

\* The connection of p to the destination of a queue entry is open.
Connected(p, to) ==
  /\ to \in Peers
  /\ connections[p][to] # 0
  /\ pcs[p][connections[p][to]].status = "open"

C3_TimeoutRunsCallbackOnce ==
  /\ [](\A n \in 1..MaxCalls :
          /\ fired[n] <= 1
          /\ fired[n] = 1 => \A r \in Peers : <<n, r>> \notin handed)
  /\ [][\A p \in Peers : \A i \in 1..Len(queue[p]) :
          LET elt == queue[p][i]
              n == elt.message.data.obj
              tick == out'.op = "tick" /\ out'.peer = p
              gone == elt \notin Range(queue'[p])
          IN (elt.hasTimeout /\ elt.callback) =>
               IF tick /\ ~Connected(p, elt.message.to)
               THEN IF now - elt.timestamp > elt.timeout
                    THEN gone /\ fired[n] = 0 /\ fired'[n] = 1
                    ELSE ~gone /\ fired'[n] = 0
               ELSE fired'[n] = fired[n]]_vars

\* The entry enqueued at t = 0 with timeout 1500 survived the tick at t = 1000 and
\* the tick at t = 2000 has removed it and run its callback.
C3_Witness ==
  /\ out.op = "tick"
  /\ now = 2 * PeerQueueTimeout
  /\ \E n \in 1..MaxCalls : out.timedout = {n} /\ fired[n] = 1
  /\ queue[out.peer] = <<>>

\* C4: a send adds a retry-queue entry exactly when the message is not addressed
\* to the sender, no open connection to `to` exists, no route hop is connected
\* and the type is not forwardable; the queue then grows by exactly one entry and
\* a request-peer for message.to is emitted; otherwise the queue is unchanged.
C4_EnqueueExactlyWhenUndeliverable ==
  [][out'.op = "send" =>
       LET p == out'.peer
           m == out'.msg
           undeliverable == /\ m.to # p
                            /\ ~Connected(p, m.to)
                            /\ ~(m.route # <<>> /\ connections[p][m.route[1]] # 0)
                            /\ ~contains(m.type, forwardableTypes)
       IN IF undeliverable
          THEN /\ Len(queue'[p]) = Len(queue[p]) + 1
               /\ out'.requested = <<m.to>>
          ELSE queue'[p] = queue[p]]_vars

\* C5: in the step in which the connection of p to remote r opens, every queued
\* entry with to = r is sent over that connection in enqueue order and removed
\* from the queue; entries addressed to other peers stay queued unchanged.
C5_OpenDrainsQueue ==
  [][out'.op = "open" =>
       LET p == out'.peer
           r == out'.msg.from
           messageToSend == SelectSeq(queue[p], LAMBDA elt : elt.message.to = r)
           rest == SelectSeq(queue[p], LAMBDA elt : elt.message.to # r)
           before == Len(chan[p][r])
       IN /\ queue'[p] = rest
          /\ Len(chan'[p][r]) = before + Len(messageToSend)
          /\ \A i \in 1..Len(messageToSend) :
               chan'[p][r][before + i].msg = messageToSend[i].message]_vars

\* The ttl a message was created with: the application's for a message it gave
\* to send, Peer.ttl for the messages the peer builds itself.
InitialTtl(m) ==
  IF m.data.obj \in 1..MaxCalls /\ issued[m.data.obj].type = m.type
  THEN issued[m.data.obj].ttl
  ELSE PeerTtl

Last(s) == s[Len(s)]

\* The handler that just ran received, over a data channel, a message for
\* another peer with ttl > 0.
Forwarding ==
  /\ out.op = "message"
  /\ out.msg.to \notin {out.peer, BroadcastNumber}
  /\ out.msg.ttl > 0

\* C6 (amended): a peer that receives over a data channel a message for another
\* peer with ttl > 0 sends it on with ttl decremented by 1 and its own id appended
\* to forwardBy; every message travelling on a data channel carries ttl = initial
\* ttl - Len(forwardBy) and was put there by its last forwarder (by its originator
\* if never forwarded); while A has no connection for C, the request-peer of A
\* for C with ttl 3 is dispatched at C with forwardBy = <<B>> and ttl = 2.
C6_ForwardOverDataChannels ==
  /\ Forwarding =>
       /\ out.sent # {} \/ out.signalled # <<>>
       /\ \A r \in out.sent :
            LET m == Last(chan[out.peer][r]).msg
            IN /\ m.ttl = out.msg.ttl - 1
               /\ m.forwardBy = Append(out.msg.forwardBy, out.peer)
               /\ m.type = out.msg.type /\ m.from = out.msg.from /\ m.to = out.msg.to
  /\ \A p, q \in Peers : \A i \in 1..Len(chan[p][q]) :
       LET m == chan[p][q][i].msg
       IN /\ m.ttl = InitialTtl(m) - Len(m.forwardBy)
          /\ p = IF m.forwardBy = <<>> THEN m.from ELSE Last(m.forwardBy)
  /\ \A i \in 1..Len(out.dispatched) :
       LET m == out.dispatched[i]
       IN (/\ out.op = "message" /\ out.peer = "C"
           /\ connections["A"]["C"] = 0
           /\ m.type = "request-peer" /\ m.from = "A" /\ m.to = "C"
           /\ InitialTtl(m) = PeerTtl)
          => m.forwardBy = <<"B">> /\ m.ttl = PeerTtl - 1

\* C received A's request-peer for C through B.
C6_Witness ==
  /\ out.op = "message"
  /\ out.peer = "C"
  /\ out.dispatched # <<>>
  /\ connections["A"]["C"] = 0
  /\ out.msg.type = "request-peer"
  /\ out.msg.from = "A"
  /\ out.msg.forwardBy = <<"B">>
  /\ out.msg.ttl = PeerTtl - 1

\* C6 (as stated): every message delivered after k >= 1 forwards carries
\* ttl = initial ttl - k, whichever link delivered it.
C6_EveryDeliveryCountsForwards ==
  (out.op \in {"message", "signal"} /\ out.msg.forwardBy # <<>>) =>
    out.msg.ttl = InitialTtl(out.msg) - Len(out.msg.forwardBy)

\* The messages peers are sending, forwarding or dispatching.
Handled ==
  UNION {{chan[p][q][i].msg : i \in 1..Len(chan[p][q])} : p \in Peers, q \in Peers}
  \cup UNION {Range(sig[p][q]) : p \in Peers, q \in Peers}
  \cup Range(out.dispatched) \cup Range(out.signalled)
  \cup {b.msg : b \in Range(out.broadcasts)}

C8_LiveConnectionNeverReplaced ==
  [][\A p \in Peers : \A r \in Peers :
       connections'[p][r] # connections[p][r] =>
         \/ connections[p][r] = 0
         \/ pcs[p][connections[p][r]].status = "close"]_vars

\* A and B asked for each other at the same time: each holds an offering
\* connection object made for the other's request-peer, and no channel was torn down.
Simultaneous ==
  /\ \E n \in 1..MaxCalls :
       issued[n].type = "request-peer" /\ issued[n].from = "A" /\ issued[n].to = "B"
  /\ \E n \in 1..MaxCalls :
       issued[n].type = "request-peer" /\ issued[n].from = "B" /\ issued[n].to = "A"
  /\ \E i \in 1..Len(pcs["A"]) : pcs["A"][i].remotePeer = "B" /\ pcs["A"][i].role = "offerer"
  /\ \E i \in 1..Len(pcs["B"]) : pcs["B"][i].remotePeer = "A" /\ pcs["B"][i].role = "offerer"
  /\ closes = 0

\* Both handshakes have run to their end: nothing in flight, nothing pending.
Settled ==
  /\ \A p, q \in Peers : chan[p][q] = <<>> /\ sig[p][q] = <<>>
  /\ \A p \in Peers : \A i \in 1..Len(pcs[p]) :
       /\ pcs[p][i].task = "none"
       /\ ~(pcs[p][i].status = "connecting" /\ established(p, i))

\* Exactly one connection between A and B is open, and it is the one both hold.
OneOpenConnection ==
  /\ Cardinality({i \in 1..Len(pcs["A"]) :
                    pcs["A"][i].remotePeer = "B" /\ pcs["A"][i].status = "open"}) = 1
  /\ Cardinality({i \in 1..Len(pcs["B"]) :
                    pcs["B"][i].remotePeer = "A" /\ pcs["B"][i].status = "open"}) = 1
  /\ Connected("A", "B")
  /\ Connected("B", "A")
  /\ pcs["A"][connections["A"]["B"]].partner = connections["B"]["A"]

\* C9: when A and B send request-peer to each other at the same time, every
\* interleaving of the two handshakes ends with exactly one connection between
\* A and B established and open.
C9_SimultaneousRequestsYieldOneConnection ==
  (Simultaneous /\ Settled) => OneOpenConnection

\* C10: when the data channel of p to remote r opens, the connection p holds for r
\* has status open and the listeners registered for `connected` are invoked
\* with a message whose from is r.
C10_OpenInvokesConnectedListeners ==
  out.op = "open" =>
    /\ \E i \in 1..Len(pcs[out.peer]) :
         pcs[out.peer][i].remotePeer = out.msg.from /\ pcs[out.peer][i].status = "open"
    /\ \E i \in 1..Len(out.dispatched) :
         out.dispatched[i].type = "connected" /\ out.dispatched[i].from = out.msg.from

\* C11: handling a request-peer from remote r while the peer holds a connection
\* to r that is connecting or open changes nothing: no connection object is
\* created, the connections map is unchanged and nothing (no offer) is sent.
C11_RequestPeerIgnoredWhenConnected ==
  [][(/\ out'.op \in {"signal", "message"}
      /\ out'.dispatched = <<out'.msg>>
      /\ out'.msg.type = "request-peer"
      /\ out'.msg.from \in Peers
      /\ connections[out'.peer][out'.msg.from] # 0
      /\ pcs[out'.peer][connections[out'.peer][out'.msg.from]].status # "close")
     => /\ pcs' = pcs
        /\ connections' = connections
        /\ out'.created = <<>>
        /\ out'.sent = {}
        /\ out'.signalled = <<>>]_vars

\* A request-peer reached a peer that already holds a live connection to its
\* sender, and was ignored.
C11_Witness ==
  /\ out.op = "signal"
  /\ out.dispatched = <<out.msg>>
  /\ out.msg.type = "request-peer"
  /\ out.msg.from \in Peers \ {out.peer}
  /\ connections[out.peer][out.msg.from] # 0
  /\ pcs[out.peer][connections[out.peer][out.msg.from]].status \in {"connecting", "open"}
  /\ out.created = <<>>

\* A view holds at most C descriptors, one for an id, none for the peer itself.
ValidView(view) ==
  /\ Cardinality(view) <= gossip.C
  /\ \A d \in view : \A e \in view : d.id = e.id => d = e
  /\ \A d \in view : d.id # GossipSelf

\* C12: the worker starts with a view of at most C descriptors, without
\* duplicate ids and without its own id, and after every passive or active
\* exchange (mergeView then increaseAge), whatever buffer was received and
\* whatever H and S are, its view again has at most C descriptors, no two with
\* the same id, and none with its own id.
C12_ViewStaysValid == ValidView(gossip.view)

\* An exchange has completed whose merge exceeded C, so that descriptors had
\* to be removed.
C12_Witness ==
  /\ gossip.last.op \in {"passive", "answer"}
  /\ gossip.last.rounds >= 1
  /\ gossip.last.overflow
  /\ Cardinality(gossip.view) = gossip.C

\* What genBuffer returned: the descriptors taken from the view, which for
\* the active thread are followed by the peer's own descriptor.
Taken ==
  IF gossip.last.thread = "active"
  THEN SubSeq(gossip.last.sent, 1, Len(gossip.last.sent) - 1)
  ELSE gossip.last.sent

\* Twice the target size of the buffer: C / 2, or C / 2 - 1 for the active thread.
Target2 == IF gossip.last.thread = "active" THEN gossip.C - 2 ELSE gossip.C

BufferAsSpecified ==
  LET filtered == {d \in gossip.view : d.id # gossip.last.from}
  IN /\ \A i \in DOMAIN Taken : Taken[i] \in filtered
     /\ \A i \in DOMAIN Taken : \A j \in DOMAIN Taken : Taken[i] = Taken[j] => i = j
     /\ 2 * Len(Taken) <= Target2
     /\ 2 * Cardinality(filtered) < Target2 => {Taken[i] : i \in DOMAIN Taken} = filtered
     /\ gossip.last.thread = "active" =>
           /\ gossip.last.sent # <<>>
           /\ gossip.last.sent[Len(gossip.last.sent)] = Descriptor(GossipSelf, 0)
     /\ 2 * Len(gossip.last.sent) <= gossip.C
     /\ gossip.view = {} =>
           gossip.last.sent = IF gossip.last.thread = "active"
                              THEN <<Descriptor(GossipSelf, 0)>> ELSE <<>>

\* C13 (amended): for C >= 2, genBuffer(thread, distantId, view) returns only
\* descriptors of view whose id is not distantId, at most C/2 of them for the
\* passive thread and at most C/2 - 1 for the active thread, all of them when
\* they are fewer than the target, followed for the active thread only by the
\* peer's own descriptor of age 0; the buffer has at most C/2 entries; for an
\* empty view it is empty (passive) or just the own descriptor (active).
C13_BufferWithinHalfOfC ==
  (gossip.last.op = "genBuffer" /\ gossip.C >= 2) => BufferAsSpecified

\* The active thread's buffer of a view that holds the remote peer: another
\* descriptor of the view, then the own descriptor.
C13_Witness ==
  /\ gossip.last.op = "genBuffer"
  /\ gossip.last.thread = "active"
  /\ gossip.C >= 2
  /\ \E d \in gossip.view : d.id = gossip.last.from
  /\ Len(gossip.last.sent) = 2

\* C13 as stated, for every C: a buffer of genBuffer is as above and never has
\* more than C/2 entries.
C13_BufferWithinHalfOfAnyC == gossip.last.op = "genBuffer" => BufferAsSpecified

\* The ids of the view and of the received buffer, the peer's own excepted.
MergedIds ==
  ({d.id : d \in gossip.view}
     \cup {gossip.last.data[i].id : i \in DOMAIN gossip.last.data}) \ {GossipSelf}

\* The smallest age the view or the received buffer gives for an id.
YoungestAge(id) ==
  LET ages == {d.age : d \in {e \in gossip.view : e.id = id}}
                \cup {gossip.last.data[i].age :
                        i \in {j \in DOMAIN gossip.last.data : gossip.last.data[j].id = id}}
  IN CHOOSE a \in ages : \A b \in ages : a <= b

\* C14: when the merged view does not exceed C, mergeView(received, sent, view)
\* returns exactly one descriptor for every id of view or received other than
\* the peer's own, whatever sent, H and S are, and for an id present in both
\* it has the smaller age (a received descriptor replaces the existing one
\* only if it is strictly younger).
C14_MergeKeepsYoungestOfEachId ==
  (gossip.last.op = "mergeView" /\ Cardinality(MergedIds) <= gossip.C)
    => gossip.last.merged = {Descriptor(id, YoungestAge(id)) : id \in MergedIds}

\* mergeView with H = S = 1 and a sent buffer was given a descriptor younger
\* than the view's, one that is not younger, and the view did not exceed C.
C14_Witness ==
  /\ gossip.last.op = "mergeView"
  /\ Cardinality(MergedIds) <= gossip.C
  /\ gossip.H = 1 /\ gossip.S = 1 /\ gossip.last.sent # <<>>
  /\ \E i \in DOMAIN gossip.last.data : \E d \in gossip.view :
       /\ d.id = gossip.last.data[i].id
       /\ gossip.last.data[i].age < d.age
       /\ gossip.last.data[i] \in gossip.last.merged
  /\ \E i \in DOMAIN gossip.last.data : \E d \in gossip.view :
       /\ d.id = gossip.last.data[i].id
       /\ gossip.last.data[i].age >= d.age
       /\ d \in gossip.last.merged

\* C15: increaseAge is applied exactly once per completed active or passive
\* exchange: a descriptor that stays in the view and is not replaced by a
\* strictly younger received one is exactly one unit older after the
\* exchange, and no age is negative.
C15_AgedOncePerExchange ==
  [][(gossip'.last.op \in {"passive", "answer"} /\ gossip'.last.rounds >= 1)
       => /\ \A d \in gossip.view : \A e \in gossip'.view :
               (d.id = e.id /\ d.id \notin gossip'.last.replaced) => e.age = d.age + 1
          /\ \A e \in gossip'.view : e.age >= 0]_vars

\* The numbers of the parts whose status is needed.
Needed == {n \in PartNumbers : n < Len(media.parts) /\ media.parts[n + 1].status = "needed"}

\* C20: nextPartsToDownload(n) returns min(n, number of needed parts) tuples,
\* for the lowest-numbered needed parts in increasing order; each tuple names
\* a peer whose remotes list contains the part, and names the origin exactly
\* when no known peer lists the part.
C20_NextPartsAreLowestNeeded ==
  media.last.op = "nextPartsToDownload" =>
    LET choices == media.last.choices
    IN /\ Len(choices) = Min(media.last.howMany, Cardinality(Needed))
       /\ \A i \in DOMAIN choices :
            /\ choices[i].partNumber \in Needed
            /\ Cardinality({n \in Needed : n < choices[i].partNumber}) = i - 1
            /\ choices[i].id # Source =>
                  /\ choices[i].id \in media.remoteIds
                  /\ choices[i].partNumber \in media.remotes[choices[i].id]
            /\ choices[i].id = Source <=>
                  ~ \E r \in media.remoteIds : choices[i].partNumber \in media.remotes[r]

\* Every part is needed, one peer lists them all, fewer parts are asked for
\* than are needed: all the tuples point at that peer.
C20_Witness ==
  /\ media.last.op = "nextPartsToDownload"
  /\ Cardinality(Needed) = MaxParts
  /\ media.remoteIds = {"B"} /\ media.remotes["B"] = PartNumbers
  /\ media.last.howMany = MaxParts - 1
  /\ Len(media.last.choices) = MaxParts - 1
  /\ \A i \in DOMAIN media.last.choices : media.last.choices[i].id = "B"

\* The place of a status on the way needed, pending, available, added.
Rank(status) ==
  CASE status = "needed" -> 0
    [] status = "pending" -> 1
    [] status = "available" -> 2
    [] status = "added" -> 3

FallbackArmed(n) ==
  \/ n \in media.fetching
  \/ \E k \in DOMAIN queue[MediaPeerId] :
       LET elt == queue[MediaPeerId][k]
       IN /\ elt.message.type = "media:request-part"
          /\ numberOf(elt.message.data.obj) = n
          /\ elt.hasTimeout /\ elt.callback

\* C17: a part that was requested and for which no media:part has arrived is
\* fetched from the origin once downloadTimeout has passed, whether or not the
\* connection to the peer was open when the request was sent: while such a
\* part is pending, either its request waits in the queue with the timeout
\* callback or the origin fetch is under way (a fetch the origin refused aside).
C17_PendingPartFallsBackToOrigin ==
  \A n \in PartNumbers :
    (/\ n < Len(media.parts)
     /\ media.parts[n + 1].status = "pending"
     /\ media.parts[n + 1].chunks = {}
     /\ n \notin media.failed) => FallbackArmed(n)

\* C18: when the media peer handles a media:part for a part that is not
\* pending, the message is rejected as an error and changes nothing: every
\* part keeps its status, data and chunks, and the sink is given nothing.
C18_UnexpectedPartIsRejected ==
  [][(/\ out'.peer = MediaPeerId
      /\ out'.op \in {"message", "fetched"}
      /\ out'.msg.type = "media:part"
      /\ out'.dispatched # <<>>
      /\ numberOf(out'.msg.data.obj) < Len(media.parts)
      /\ media.parts[numberOf(out'.msg.data.obj) + 1].status # "pending")
     => /\ media'.last.op = "media:part"
        /\ media'.last.error
        /\ media'.parts = media.parts
        /\ media'.appended = media.appended
        /\ media'.sourceBuffer = media.sourceBuffer]_vars

\* B's media:part for a part that is already in the sink has been handled and
\* rejected while the sink was idle.
C18_Witness ==
  /\ out.op = "message" /\ out.peer = MediaPeerId
  /\ out.msg.type = "media:part" /\ out.msg.from = "B"
  /\ media.last.op = "media:part" /\ media.last.error
  /\ media.parts[media.last.number + 1].status = "added"
  /\ media.sourceBuffer = "idle"

\* C19: when the origin refuses the request for a part (a status other than
\* 200 or 206), the part goes back from pending to needed, so that the next
\* askForNextParts asks for it again.
C19_FailedFetchRevertsToNeeded ==
  (out.op = "fetched" /\ media.last.op = "reject") =>
    media.parts[media.last.number + 1].status = "needed"

\* Array concatenation of the chunks in index order.
RECURSIVE Concatenated(_)
Concatenated(chunks) ==
  IF chunks = <<>> THEN <<>> ELSE Head(chunks) \o Concatenated(Tail(chunks))

\* C21: for a held part of L >= 1 bytes and a chunk size k >= 1,
\* getChunkedPart returns ceil(L / k) chunks, each of at most k bytes and all
\* but the last of exactly k, whose concatenation in index order is the part.
C21_ChunksCoverThePart ==
  media.last.op = "getChunkedPart" =>
    LET L == Len(media.last.bytes)
        k == media.last.chunkSize
        chunks == media.last.chunked
        n == CHOOSE m \in 1..L : m * k >= L /\ (m - 1) * k < L
    IN /\ Len(chunks) = n
       /\ \A i \in 1..n : Len(chunks[i]) <= k /\ (i < n => Len(chunks[i]) = k)
       /\ Len(chunks[n]) >= 1
       /\ Concatenated(chunks) = media.last.bytes

\* A part of MaxBytes bytes cut into full chunks and a shorter last one.
C21_Witness ==
  /\ media.last.op = "getChunkedPart"
  /\ Len(media.last.bytes) = MaxBytes
  /\ Len(media.last.chunked) >= 2
  /\ Len(media.last.chunked[Len(media.last.chunked)]) < media.last.chunkSize

\* C22: peerHasPart(n) returns true exactly when part n exists and is
\* available or added, and returns false without raising an error for every
\* other n, the numbers outside the parts list included.
C22_PeerHasPartIsTotal ==
  media.last.op = "peerHasPart" =>
    /\ ~media.last.error
    /\ media.last.result <=>
          /\ media.last.number \in 0..(Len(media.parts) - 1)
          /\ media.parts[media.last.number + 1].status \in {"available", "added"}

\* C23: removeAllListeners(type) removes every listener registered for the
\* type, leaves the other types alone and raises no error when the type has
\* no listeners; removeAllListeners() removes the listeners of all types.
C23_RemoveAllListenersRemoves ==
  [][emitter'.last.op = "removeAllListeners" =>
       LET type == emitter'.last.type
           listenersOf(E, t) == IF t \in E.has THEN E.of[t] ELSE {}
       IN /\ ~emitter'.last.error
          /\ \A t \in EmitterTypes :
               listenersOf(emitter', t) =
                 IF type = Undefined \/ t = type THEN {} ELSE listenersOf(emitter, t)]_vars

\* The messages a step has put on the data channel from p to r.
NewOnChannel(p, r) ==
  {chan'[p][r][k].msg : k \in {j \in DOMAIN chan'[p][r] : j > Len(chan[p][r])}}

C25_BroadcastIsDispatchedNotForwarded ==
  (out.op = "message" /\ out.msg.to = BroadcastString) =>
    /\ out.msg \in Range(out.dispatched)
    /\ out.broadcasts = <<>>
    /\ out.signalled = <<>>

\* C26: an offer or an answer made in response to a message that was
\* forwarded carries the forwardBy chain as route and travels back hop by hop
\* along the inverse path, whatever the length of the chain: no peer
\* broadcasts an offer or an answer that still carries a route.
C26_RoutedResponsesAreNotBroadcast ==
  \A i \in DOMAIN out.broadcasts :
    out.broadcasts[i].msg.type \in {"offer", "answer"} => out.broadcasts[i].msg.route = <<>>

\* C27: an ICE candidate is given to a connection only after the remote
\* description of that connection has been set, on the offering as well as on
\* the answering side.
C27_CandidatesWaitForRemoteDescription ==
  \A i \in DOMAIN out.added : out.added[i].described

\* C28: for a part that no known peer holds (the choice names the origin),
\* askForNextParts starts the origin fetch at once: the part is being fetched
\* when the handler returns, no media:request-part for it waits in the queue
\* and no request-peer was issued for the origin.
C28_OriginPartsFetchedImmediately ==
  \A i \in DOMAIN media.last.choices :
    media.last.choices[i].id = Source =>
      /\ media.last.choices[i].partNumber \in media.fetching
      /\ PartObj(media.last.choices[i].partNumber) \notin Range(out.enqueued)
      /\ Source \notin Range(out.requested)

\* C29: when the media peer has ingested the chunk that completes a pending
\* part (all chunks 0 .. N - 1 of the N announced are there), the part is no
\* longer pending: it is available, or already given to the sink.
C29_AllChunksMakePartAvailable ==
  (/\ media.last.op = "media:part"
   /\ ~media.last.error
   /\ media.last.chunk # 0
   /\ media.parts[media.last.number + 1].chunks = 0..(numberOfChunksOf(media.last.chunk) - 1))
  => media.parts[media.last.number + 1].status \in {"available", "added"}

\* C30: getRangeOfPart(i) is clusters[i].offset .. clusters[i + 1].offset - 1
\* for every part but the last and clusters[last].offset .. size - 1 for the
\* last part, and getRangeOfHead is 0 .. clusters[0].offset - 1.
C30_RangesPartitionTheFile ==
  LET clusters == media.metadata.clusters
      i == media.last.number
  IN /\ media.last.op = "getRangeOfPart" =>
          media.last.range = <<clusters[i + 1],
                               IF i = Len(clusters) - 1
                               THEN media.metadata.size - 1
                               ELSE clusters[i + 2] - 1>>
     /\ media.last.op = "getRangeOfHead" => media.last.range = <<0, clusters[1] - 1>>

\* The active thread waits for an answer of the peer the last message came from.
Awaited == \E k \in DOMAIN gossip.listeners : gossip.listeners[k].distantId = gossip.last.from

\* C31: once the peer has handled a gossip:answer-exchange from the remote
\* the active thread sent its request to, the gossip engine has merged the
\* received buffer into the view and aged it.
C31_AnswerReachesTheEngine ==
  (gossip.last.type = "gossip:answer-exchange" /\ Awaited) => gossip.last.rounds >= 1

\* C32: at any time the active thread has at most one answer listener
\* installed: the listener of an exchange that got no answer is removed at
\* the next active tick.
C32_AtMostOnePendingListener == Len(gossip.listeners) <= 1

\* C33: the gossip:answer-exchange the passive thread sends to r carries the
\* passive buffer as generated from the view before the merge: no descriptor
\* of r, and every descriptor with the age the view gave it before the merge
\* and the aging of this exchange.
C33_AnswerCarriesBufferAsGenerated ==
  [][gossip'.last.op = "passive"
       => \A i \in DOMAIN gossip'.last.sent :
            /\ gossip'.last.sent[i].id # gossip'.last.from
            /\ gossip'.last.sent[i] \in gossip.view]_vars

Ids(view) == {d.id : d \in view}

\* C34: the merge of an answer is applied to the view as it is when the
\* answer arrives: unless the merged view exceeded C and was pruned, every
\* peer of the view before the answer, those added by passive exchanges since
\* the request was sent included, is still in the view after it.
C34_AnswerMergesIntoCurrentView ==
  [][(gossip'.last.op = "answer" /\ gossip'.last.rounds >= 1 /\ ~gossip'.last.overflow)
       => Ids(gossip.view) \subseteq Ids(gossip'.view)]_vars

\* An answer was merged and the view still holds a peer that was in neither
\* the view at the time of the request nor the answer's buffer.
C34_Witness ==
  /\ gossip.last.op = "answer" /\ gossip.last.rounds >= 1 /\ ~gossip.last.overflow
  /\ \E k \in DOMAIN gossip.listeners :
       /\ gossip.listeners[k].distantId = gossip.last.from
       /\ \E d \in gossip.view :
            /\ d.id \notin Ids(gossip.listeners[k].view)
            /\ \A i \in DOMAIN gossip.last.data : gossip.last.data[i].id # d.id

\* What mergeView had after its forEach, and by how much that exceeds C.
Merged == mergeEach(gossip.last.data, gossip.view)
Excess == Cardinality(Merged) - gossip.C

\* C36: when the merged view exceeds C by e > 0, min(H, e) of the removed
\* descriptors are the oldest ones, each at least as old as every other
\* descriptor of the merged view; when H >= e nothing else is removed and the
\* result is the C youngest descriptors.
C36_HealingRemovesTheOldest ==
  (gossip.last.op = "mergeView" /\ Excess > 0)
  => \E healed \in SUBSET (Merged \ gossip.last.merged) :
       /\ Cardinality(healed) = Min(gossip.H, Excess)
       /\ \A gone \in healed : \A kept \in Merged \ healed : gone.age >= kept.age
       /\ gossip.H >= Excess => gossip.last.merged = Merged \ healed

\* mergeView healed a view that exceeded C and held descriptors of different
\* ages, with H large enough to do all the removal.
C36_Witness ==
  /\ gossip.last.op = "mergeView"
  /\ Excess > 0
  /\ gossip.H >= Excess
  /\ \E d, e \in Merged : d.age < e.age /\ d \in gossip.last.merged /\ e \notin gossip.last.merged

\* The descriptors of the view just handled that list the tracked URL.
Listing == {nd \in media.last.view : nd.hasMedia /\ MediaUrl \in nd.urls}

\* C35: after gossip:view-update with view V has been handled, the remotes of
\* the tracked media are exactly the peers of V whose descriptor lists the
\* URL, each with the parts the descriptor lists, whatever remotes held before.
C35_RemotesAreThoseOfTheView ==
  media.last.op = "gossip:view-update"
  => /\ media.remoteIds = {nd.id : nd \in Listing}
     /\ \A nd \in Listing : media.remotes[nd.id] = nd.parts[MediaUrl]
     /\ \A r \in Peers \ {nd.id : nd \in Listing} : media.remotes[r] = {}

\* A view update was handled whose view lists the URL for one peer, has a
\* descriptor without the URL for another, and lists parts.
C35_Witness ==
  /\ media.last.op = "gossip:view-update"
  /\ \E nd \in Listing : nd.parts[MediaUrl] # {}
  /\ \E nd \in media.last.view : nd \notin Listing /\ nd.hasMedia
  /\ Cardinality(media.remoteIds) = 1

\* C37: a message of type connected or disconnected that arrives from a remote
\* peer, over a data channel or the signalling link, is not dispatched to the
\* listeners of the peer that receives it.
C37_InternalEventsAreLocalOnly ==
  out.op \in {"message", "signal"}
  => \A i \in 1..Len(out.dispatched) : out.dispatched[i].type \notin InternalTypes

\* The parts of the media whose status is pending.
Pending == {i \in DOMAIN media.parts : media.parts[i].status = "pending"}

\* C38: at any time the number of parts of the media whose status is pending
\* is at most concurrentParts, also when a part arrives as several chunks.
C38_PendingWithinConcurrentParts ==
  Cardinality(Pending) <= concurrentParts

\* The part numbers of the media whose status is available or added.
Held == {PartNumber(i - 1, 0) : i \in {j \in DOMAIN media.parts :
                                        media.parts[j].status \in {"available", "added"}}}

\* C39: every gossip:descriptor-update the media extension publishes carries
\* exactly the part numbers whose status is available or added at that moment:
\* no part that is not fully held, and no value that is not a part number.
C39_DescriptorListsHeldParts ==
  \A i \in 1..Len(out.published) : out.published[i] = Held

\* The messages peer q put on its data channels and on the signalling link in
\* the step just taken.
NewlySent(q) ==
  UNION {{chan'[q][r][i].msg : i \in (Len(chan[q][r]) + 1)..Len(chan'[q][r])} : r \in Peers}
    \cup UNION {{sig'[q][r][i] : i \in (Len(sig[q][r]) + 1)..Len(sig'[q][r])} : r \in Peers}

SameMessage(m, n) ==
  n.type = m.type /\ n.from = m.from /\ n.to = m.to /\ n.data = m.data

\* A peer that handles a data channel message addressed to another peer sends
\* it on only with a smaller ttl, and not at all when its ttl is 0.
ForwardsDecreaseTtl ==
  (out'.op = "message" /\ out'.msg.to \notin {out'.peer, BroadcastNumber})
  => \A n \in NewlySent(out'.peer) :
       SameMessage(out'.msg, n) => out'.msg.ttl > 0 /\ n.ttl < out'.msg.ttl

\* Whatever is on the signalling link has ttl 0.
SignalledWithTtlZero ==
  \A p, q \in Peers : \A i \in 1..Len(sig[p][q]) : sig[p][q][i].ttl = 0

\* A request of the application was forwarded at most as often as the ttl it
\* was sent with.
ForwardedAtMostTtlTimes ==
  \A p, q \in Peers :
    /\ \A i \in 1..Len(chan[p][q]) :
         LET m == chan[p][q][i].msg
         IN (m.type = "request-peer" /\ m.data.obj \in 1..calls)
            => Len(m.forwardBy) <= issued[m.data.obj].ttl
    /\ \A i \in 1..Len(sig[p][q]) :
         LET m == sig[p][q][i]
         IN (m.type = "request-peer" /\ m.data.obj \in 1..calls)
            => Len(m.forwardBy) <= issued[m.data.obj].ttl

\* C40: propagation of a message terminates: every forward strictly decreases
\* its ttl, a peer that receives it with ttl 0 and is not its recipient sends
\* nothing on, whatever is handed to the signalling link leaves with ttl 0,
\* and a message injected with ttl t is forwarded at most t times in sequence.
C40_PropagationTerminates ==
  [][ForwardsDecreaseTtl /\ SignalledWithTtlZero' /\ ForwardedAtMostTtlTimes']_vars

\* A request A sent with the full ttl was forwarded by B and by C, handed to
\* the signalling link, and is received there with ttl 0 while no copy of it is
\* left on a data channel.
C40_Witness ==
  /\ out.op = "signal"
  /\ out.msg.type = "request-peer"
  /\ out.msg.from = "A"
  /\ out.msg.forwardBy = <<"B", "C">>
  /\ out.msg.ttl = 0
  /\ out.msg.data.obj \in 1..calls
  /\ issued[out.msg.data.obj].ttl = PeerTtl
  /\ \A p, q \in Peers : \A i \in 1..Len(chan[p][q]) :
       ~SameMessage(out.msg, chan[p][q][i].msg)

====
